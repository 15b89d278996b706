---------------------------- MODULE Certificates ----------------------------
(***************************************************************************)
(* The certificates the API obtains from the AD CS authority               *)
(* (certificates.ts), the cycle that renews them and the issuance that     *)
(* follows the creation of a route (certificatesReconciler.ts), the routes *)
(* of routes/certificates.ts, and what Caddy is given of them              *)
(* (reverseProxy.ts).                                                      *)
(*                                                                         *)
(* The authority is asked first; the list is read afterwards, changed and  *)
(* written whole, as in Secrets.  A push reads the routes, waits for what   *)
(* they lead to, reads the list, and loads what it built from both.        *)
(*                                                                         *)
(* Abstracted: keys, requests, chains and dates (a certificate is fresh,   *)
(* then due, then expired); the configuration of the authority is there    *)
(* and enrols automatically; routes are created and deleted in one step,   *)
(* where their push begins (ReverseProxy has the detail), and every route  *)
(* leads somewhere.                                                        *)
(***************************************************************************)
EXTENDS Naturals, FiniteSets

Fn == INSTANCE Functions

CONSTANTS
  Subjects,        \* subdomains
  Held,            \* those that have a route and a certificate at first
  Requests,        \* requests in flight together, beside the cycle
  None,            \* the cache before the first read
  Empty, Torn,     \* the file truncated, or a mixture of two lists
  Absent,          \* no certificate for this subject
  NoSubject,
  MaxArrivals,     \* bound: requests received
  MaxAgings,       \* bound: certificates that come to their term
  MaxIncidents     \* bound: refusals, errors, failed pushes, restarts

VARIABLES
  disk,            \* the file: a list, Empty or Torn
  cache,           \* the list of the process
  job,             \* the cycle and the requests in flight
  issued,          \* certificates given by the authority so far: 1 .. issued
  due, expired,    \* those in their window of renewal, or beyond their term
  routed,          \* the subdomains that have a route
  caddy,           \* the certificate Caddy serves to each, 0 its own
  missed,          \* history: Caddy may present something else than the list says
  arrivals, agings, incidents

storeVars == <<disk, cache>>
outside == <<issued, due, expired, routed, agings>>
vars == <<storeVars, job, outside, caddy, missed, arrivals, incidents>>

Cert == [serial : Nat \ {0}, failed : BOOLEAN]

Lists == [Subjects -> Cert \cup {Absent}]

Blank == [s \in Subjects |-> Absent]

ASSUME HeldIsFinite == Held \subseteq Subjects /\ IsFiniteSet(Held)

ASSUME Distinct ==
  /\ Absent \notin Cert
  /\ NoSubject \notin Subjects
  /\ {None, Empty, Torn} \cap Lists = {}
  /\ Empty # Torn
  /\ "cycle" \notin Requests

Jobs == Requests \cup {"cycle"}

Known(list) == {s \in Subjects : list[s] # Absent}

\* subjectsDueForRenewal.
DueOf(list) == {s \in Known(list) : list[s].serial \in due}

\* Mistaken variant: every certificate of the list, its route deleted or not.
ServedAll(list, routes) ==
  [s \in Subjects |->
     IF s \in Known(list) /\ list[s].serial \notin expired THEN list[s].serial ELSE 0]

\* getServableCertificates, for the subdomains of the routes that were read.
Served(list, routes) ==
  [s \in Subjects |->
     IF s \in routes \cap Known(list) /\ list[s].serial \notin expired THEN list[s].serial ELSE 0]

Idle == [pc |-> "idle", kind |-> "none", for |-> "none", subject |-> NoSubject, plan |-> {},
         serial |-> 0, renewed |-> FALSE, next |-> Blank, routes |-> {},
         config |-> [s \in Subjects |-> 0], behind |-> FALSE]

\* runCertificatesReconcileCycle, at the next tick of the timer: while a cycle
\* is going (cycleInFlight), a tick does nothing.
Tick == [Idle EXCEPT !.pc = "ask", !.kind = "cycle", !.for = "plan"]

Ended(q) == IF q.kind = "cycle" THEN Tick ELSE Idle

AtRest == [j \in Jobs |-> IF j = "cycle" THEN Tick ELSE Idle]

-----------------------------------------------------------------------------
(* What starts.                                                            *)

Goes(j, q) == job' = [job EXCEPT ![j] = q]

Incident ==
  /\ incidents < MaxIncidents
  /\ incidents' = incidents + 1

Reading == {"loading", "loaded"}

Holding == Reading \cup {"opening", "writing", "publishing", "load"}

\* j changes the file or the list: what the others hold, or are reading, of it
\* is old.
Overtaken(j, holders) ==
  [k \in Jobs |->
     IF k # j /\ job[k].pc \in holders THEN [job[k] EXCEPT !.behind = TRUE] ELSE job[k]]

\* A job asks for the list; a push has read the routes first.
Ask(q, for, routes) == [q EXCEPT !.pc = "ask", !.for = for, !.routes = routes, !.behind = FALSE]

Arrive(r, q) ==
  /\ job[r].pc = "idle"
  /\ arrivals < MaxArrivals
  /\ arrivals' = arrivals + 1
  /\ Goes(r, q)
  /\ UNCHANGED <<storeVars, issued, due, expired, agings, caddy, incidents>>

\* POST and DELETE /api/reverse-proxy/routes, once the route is stored: the
\* push, and a certificate asked for a route that was created.
CreateRoute(r, s) ==
  /\ s \notin routed
  /\ routed' = routed \cup {s}
  /\ missed' = TRUE
  /\ Arrive(r, Ask([Idle EXCEPT !.kind = "ondemand", !.subject = s], "push", routed'))

DeleteRoute(r, s) ==
  /\ s \in routed
  /\ routed' = routed \ {s}
  /\ missed' = TRUE
  /\ Arrive(r, Ask([Idle EXCEPT !.kind = "push"], "push", routed'))

\* POST /api/reverse-proxy/push; what the reconciler of the routes pushes when
\* they differ from those of Caddy is built and loaded the same way.
PushAgain(r) ==
  /\ Arrive(r, Ask([Idle EXCEPT !.kind = "push"], "push", routed))
  /\ UNCHANGED <<routed, missed>>

\* POST /api/certificates/issue.
Renew(r, s) ==
  /\ Arrive(r, [Idle EXCEPT !.pc = "authority", !.kind = "renew", !.subject = s])
  /\ UNCHANGED <<routed, missed>>

\* DELETE /api/certificates/:subject.
Forget(r, s) ==
  /\ Arrive(r, Ask([Idle EXCEPT !.kind = "forget", !.subject = s], "drop", {}))
  /\ UNCHANGED <<routed, missed>>

\* A certificate enters its window of renewal, or comes to its term.
Age(c) ==
  /\ c \in (1 .. issued) \ expired
  /\ agings < MaxAgings
  /\ agings' = agings + 1
  /\ due' = due \cup {c}
  /\ expired' \in {expired, expired \cup {c}}
  /\ UNCHANGED <<storeVars, job, issued, routed, caddy, missed, arrivals, incidents>>

-----------------------------------------------------------------------------
(* What follows each answer.                                               *)

\* The subject of q is dealt with: the cycle takes the next one of its plan,
\* or pushes if it renewed any; a request pushes what it stored.
After(q, stored) ==
  IF q.kind # "cycle" THEN {IF stored THEN Ask(q, "push", routed) ELSE Ended(q)}
  ELSE LET left == q.plan \ {q.subject}
           renewed == q.renewed \/ stored IN
       IF left = {}
       THEN {IF renewed THEN Ask([q EXCEPT !.plan = {}, !.subject = NoSubject], "push", routed)
             ELSE Ended(q)}
       ELSE {[q EXCEPT !.pc = "authority", !.plan = left, !.subject = s, !.renewed = renewed] :
               s \in left}

\* Mistaken variant: the renewals only, never a route left without certificate.
PlannedDueOnly(list) == DueOf(list)

\* planCertificateWork.
Planned(list) == DueOf(list) \cup (routed \ Known(list))

\* Mistaken variant: the failure is written on every entry.
MarkedAll(q, list) ==
  [s \in Subjects |-> IF list[s] = Absent THEN Absent ELSE [list[s] EXCEPT !.failed = TRUE]]

\* recordRenewalFailure.
Marked(q, list) == [list EXCEPT ![q.subject].failed = TRUE]

Write(q, next) == [q EXCEPT !.pc = "opening", !.next = next]

\* What q does of the list it asked for, without an await.
Decided(q, list) ==
  CASE q.for = "plan" ->
         IF Planned(list) = {} THEN {Tick}
         ELSE {[q EXCEPT !.pc = "authority", !.plan = Planned(list), !.subject = s] :
                 s \in Planned(list)}
    [] q.for = "check" ->
         {IF q.subject \in Known(list) \ DueOf(list) THEN Idle ELSE [q EXCEPT !.pc = "authority"]}
    [] q.for = "store" ->
         {Write(q, [list EXCEPT ![q.subject] = [serial |-> q.serial, failed |-> FALSE]])}
    [] q.for = "record" ->
         IF list[q.subject] = Absent THEN After(q, FALSE) ELSE {Write(q, Marked(q, list))}
    [] q.for = "drop" ->
         {IF list[q.subject] = Absent THEN Idle ELSE Write(q, [list EXCEPT ![q.subject] = Absent])}
    [] q.for = "push" ->
         {[q EXCEPT !.pc = "load", !.config = Served(list, q.routes)]}

\* getAll.
AskCached(j) ==
  /\ job[j].pc = "ask"
  /\ cache # None
  /\ \E q \in Decided(job[j], cache) : Goes(j, q)
  /\ UNCHANGED <<storeVars, outside, caddy, missed, arrivals, incidents>>

AskDisk(j) ==
  /\ job[j].pc = "ask"
  /\ cache = None
  /\ Goes(j, [job[j] EXCEPT !.pc = "loading"])
  /\ UNCHANGED <<storeVars, outside, caddy, missed, arrivals, incidents>>

\* readFromDisk: what does not parse counts as no certificate.
Parsed == IF disk \in {Empty, Torn} THEN Blank ELSE disk

ReadFromDisk(j) ==
  /\ job[j].pc = "loading"
  /\ Goes(j, [job[j] EXCEPT !.pc = "loaded", !.next = Parsed])
  /\ UNCHANGED <<storeVars, outside, caddy, missed, arrivals, incidents>>

FillCache(j) ==
  /\ job[j].pc = "loaded"
  /\ cache' = job[j].next
  /\ \E q \in Decided([job[j] EXCEPT !.next = Blank, !.behind = FALSE], job[j].next) :
       job' = [(IF cache \in {None, cache'} THEN job ELSE Overtaken(j, Holding)) EXCEPT ![j] = q]
  /\ missed' = (missed \/ cache \notin {None, cache'})
  /\ UNCHANGED <<disk, outside, caddy, arrivals, incidents>>

-----------------------------------------------------------------------------
(* The authority: submitCsrToCertsrv, fetchCaChain.                        *)

Issued(j) ==
  /\ job[j].pc = "authority"
  /\ issued' = issued + 1
  /\ Goes(j, Ask([job[j] EXCEPT !.serial = issued'], "store", {}))
  /\ UNCHANGED <<storeVars, due, expired, routed, agings, caddy, missed, arrivals, incidents>>

\* issueCertificate threw: a renewal asked by hand answers with the error, the
\* others write it beside the certificate in place.
Failed(q) == IF q.kind = "renew" THEN Idle ELSE Ask(q, "record", {})

Refused(j) ==
  /\ job[j].pc = "authority"
  /\ Incident
  /\ Goes(j, Failed(job[j]))
  /\ UNCHANGED <<storeVars, outside, caddy, missed, arrivals>>

-----------------------------------------------------------------------------
(* writeToDisk.                                                            *)

OpenFile(j) ==
  /\ job[j].pc = "opening"
  /\ disk' = Empty
  /\ job' = [Overtaken(j, Reading) EXCEPT ![j].pc = "writing"]
  /\ UNCHANGED <<cache, outside, caddy, missed, arrivals, incidents>>

\* Over a list written since the file was opened, the end of the longer one
\* may remain.
WriteFile(j) ==
  /\ job[j].pc = "writing"
  /\ disk' \in {job[j].next} \cup (IF disk \in {Empty, job[j].next} THEN {} ELSE {Torn})
  /\ job' = [Overtaken(j, Reading) EXCEPT ![j].pc = "publishing"]
  /\ UNCHANGED <<cache, outside, caddy, missed, arrivals, incidents>>

Publish(j) ==
  LET q == [job[j] EXCEPT !.next = Blank, !.serial = 0, !.behind = FALSE] IN
  /\ job[j].pc = "publishing"
  /\ cache' = job[j].next
  /\ missed' = TRUE
  /\ \E p \in (IF q.for = "drop" THEN {Idle} ELSE After(q, q.for = "store")) :
       job' = [Overtaken(j, Holding) EXCEPT ![j] = p]
  /\ UNCHANGED <<disk, outside, caddy, arrivals, incidents>>

\* A write that fails: of a new certificate it counts as a failed issuance;
\* of a failure it ends the cycle, which then pushes nothing.
WriteFails(j) ==
  LET q == [job[j] EXCEPT !.next = Blank, !.serial = 0, !.behind = FALSE] IN
  /\ job[j].pc \in {"opening", "writing", "publishing"}
  /\ Incident
  /\ Goes(j, IF q.for = "store" THEN Failed(q) ELSE Ended(q))
  /\ UNCHANGED <<storeVars, outside, caddy, missed, arrivals>>

-----------------------------------------------------------------------------
(* pushConfigToCaddy, from the configuration that was built.               *)

\* After the push, a route that was created asks for its certificate.
Pushed(q) ==
  IF q.kind = "ondemand" /\ q.serial = 0 /\ ~q.renewed
  THEN Ask([q EXCEPT !.renewed = TRUE, !.config = Idle.config], "check", {})
  ELSE Ended(q)

LoadConfig(j) ==
  /\ job[j].pc = "load"
  /\ caddy' = job[j].config
  /\ missed' = (job[j].behind \/ job[j].routes # routed)
  /\ Goes(j, Pushed(job[j]))
  /\ UNCHANGED <<storeVars, outside, arrivals, incidents>>

\* Caddy refuses, cannot be reached, or answers too late.
PushFails(j) ==
  /\ job[j].pc = "load"
  /\ Incident
  /\ caddy' \in {caddy, job[j].config}
  /\ missed' = TRUE
  /\ Goes(j, Pushed(job[j]))
  /\ UNCHANGED <<storeVars, outside, arrivals>>

Restart ==
  /\ Incident
  /\ cache' = None
  /\ job' = AtRest
  /\ missed' = (missed \/ disk # cache)
  /\ UNCHANGED <<disk, outside, caddy, arrivals>>

-----------------------------------------------------------------------------

\* The process starts; nobody has told Caddy anything yet.
Init ==
  /\ \E serial \in Fn!Bijection(Held, 1 .. Cardinality(Held)) :
       disk = [s \in Subjects |->
                 IF s \in Held THEN [serial |-> serial[s], failed |-> FALSE] ELSE Absent]
  /\ cache = None
  /\ job = AtRest
  /\ issued = Cardinality(Held)
  /\ due = {}
  /\ expired = {}
  /\ routed = Held
  /\ caddy = [s \in Subjects |-> 0]
  /\ missed = TRUE
  /\ arrivals = 0
  /\ agings = 0
  /\ incidents = 0

User ==
  \E r \in Requests :
    \/ PushAgain(r)
    \/ \E s \in Subjects : CreateRoute(r, s) \/ DeleteRoute(r, s) \/ Renew(r, s) \/ Forget(r, s)

Step(j) ==
  \/ AskCached(j) \/ AskDisk(j) \/ ReadFromDisk(j) \/ FillCache(j) \/ Issued(j)
  \/ OpenFile(j) \/ WriteFile(j) \/ Publish(j) \/ LoadConfig(j)

Fault(j) == Refused(j) \/ WriteFails(j) \/ PushFails(j)

Next ==
  \/ User
  \/ \E j \in Jobs : Step(j) \/ Fault(j)
  \/ \E c \in 1 .. issued : Age(c)
  \/ Restart

\* setInterval starts every cycle; the requests to the authority and to Caddy
\* have a time limit (certificates.requestTimeoutMs, reverseProxy.requestTimeoutMs).
Fairness == \A j \in Jobs : WF_vars(Step(j))

Spec == Init /\ [][Next]_vars /\ Fairness
-----------------------------------------------------------------------------
(* Properties.                                                             *)

Job ==
  [pc : {"idle", "ask", "loading", "loaded", "authority", "opening", "writing", "publishing",
         "load"},
   kind : {"none", "cycle", "ondemand", "push", "renew", "forget"},
   for : {"none", "plan", "check", "store", "record", "drop", "push"},
   subject : Subjects \cup {NoSubject}, plan : SUBSET Subjects, serial : Nat,
   renewed : BOOLEAN, next : Lists, routes : SUBSET Subjects, config : [Subjects -> Nat],
   behind : BOOLEAN]

\* Every variable has its type.
TypeOK ==
  /\ disk \in Lists \cup {Empty, Torn}
  /\ cache \in Lists \cup {None}
  /\ job \in [Jobs -> Job]
  /\ issued \in Nat
  /\ due \subseteq 1 .. issued /\ expired \subseteq due
  /\ routed \subseteq Subjects
  /\ caddy \in [Subjects -> Nat]
  /\ missed \in BOOLEAN

\* certificates.ts:703-708: a certificate in place is replaced by another that
\* was obtained for the same subject, or forgotten, and by nothing else: no
\* failure, and no other subject, touches it.  One exception: a list read from
\* the file, or computed, before another request changed the one in use.
InPlaceKept ==
  [][cache # None /\ cache' # None =>
       \A s \in Subjects : cache[s] # Absent /\ cache'[s] # cache[s] =>
         \E j \in Jobs :
           /\ job[j].pc \in {"loaded", "publishing"} /\ job'[j].pc # job[j].pc
           /\ \/ job[j].behind
              \/ job[j].subject = s /\ job[j].for \in {"store", "drop"}
              \/ /\ job[j].subject = s /\ job[j].for = "record"
                 /\ cache'[s] = [cache[s] EXCEPT !.failed = TRUE]]_vars

\* The list of the process, or the one it will read.
InUse == IF cache = None THEN Parsed ELSE cache

\* What Caddy is to present: to each route its certificate of the list, left
\* out or not if it came to its term since; nothing to the other subdomains.
Told(presented) ==
  \A s \in Subjects :
    IF s \in routed \cap Known(InUse)
    THEN \/ presented[s] = InUse[s].serial
         \/ presented[s] = 0 /\ InUse[s].serial \in expired
    ELSE presented[s] = 0

\* reverseProxy.ts:555-620, 686-688: the configuration is built from the routes,
\* then from the list, and is on its way while they change.  Caddy presents
\* what they say unless the last push failed, was overtaken by a change of
\* either, or was not made.
CaddyTold == ~missed => Told(caddy)

\* certificatesReconciler.ts:1-8: once requests, refusals and time leave it
\* alone, the cycle gives every route a certificate that is not due, and Caddy
\* serves it.  Nobody pushes again what a failed or overtaken push, a restart
\* or a deletion left out of Caddy, until something is renewed.
Covered ==
  <>[](\A s \in routed :
         /\ cache # None
         /\ s \in Known(cache) \ DueOf(cache)
         /\ missed \/ caddy[s] = cache[s].serial)

-----------------------------------------------------------------------------
(* What the comments say and the code does not keep.                       *)

\* certificates.ts:760, certificatesReconciler.ts:8-9, a failure is recorded
\* without touching the certificate in place: the one of its subject is still
\* the same afterwards.
FailureSparesInPlace ==
  [][cache # None /\ cache' # None =>
       \A j \in Jobs :
         LET s == job[j].subject IN
         job[j].pc = "publishing" /\ job'[j].pc # "publishing" /\ job[j].for = "record"
           /\ cache[s] # Absent
         => cache'[s] # Absent /\ cache'[s].serial = cache[s].serial]_vars

\* certificatesReconciler.ts:151-155, what the cycle renewed is published for
\* Caddy to serve it: a cycle that renewed ends with its push, unless the
\* process dies.
RenewedIsPushed ==
  [][LET q == job["cycle"] IN
       q.renewed /\ cache' # None /\ job'["cycle"] = Tick => q.pc = "load"]_vars
=============================================================================
