------------------------ MODULE AnnouncementsProofs ------------------------
(***************************************************************************)
(* Proofs about Announcements, for every value of its constants: the type  *)
(* invariant, that no cursor passes over an event nobody was shown, and    *)
(* that the log says what the file of the watcher says.                    *)
(*                                                                         *)
(* The cursors: while an event is recorded alone, nothing is stamped after *)
(* it, so all that is in the log, and every cursor taken from the log, is  *)
(* below it (Solo).  The file: a cycle that overlapped no other is the     *)
(* only writer of the log and of the file since it began.  What it has     *)
(* seen differ it still has to tell, or is telling, or has told, or is in  *)
(* doubt (Owed); what it has told is what it will save (Heard); and what   *)
(* it found saved was in the log when it began (Known).  So its save makes *)
(* the file agree with the log, and a save that overlapped another puts    *)
(* all it writes in doubt.                                                 *)
(***************************************************************************)
EXTENDS Announcements, TLAPS

\* What a cycle has seen and told, is telling or has to tell.
Seen(q) == q.tell \cup q.said \cup (IF q.pc = "append" THEN {q.on} ELSE {})

\* A cycle looks at each thing once, and tells all it found before it looks
\* at the next; an integration is looked at after the checks are listed.
Ordered(q) ==
  /\ q.pc \in {"idle", "load", "look"} => q.said = {} /\ q.todo = {}
  /\ q.pc \notin {"tell", "append"} => q.tell = {}
  /\ q.pc = "append" => q.ts > 0
  /\ q.pc = "checks" => ~q.listed
  /\ ~q.listed => q.todo = {} /\ Seen(q) \cap Integrations = {}
  /\ q.todo \cap Seen(q) = {}

TypeInv == TypeOK /\ \A c \in Cycles : Ordered(cycle[c])

-----------------------------------------------------------------------------
(* The cycles.                                                             *)

\* Onward only moves the program counter.
LEMMA OnwardMoves ==
  ASSUME NEW q \in CycleRecords
  PROVE  /\ Onward(q) \in CycleRecords
         /\ Onward(q) = [q EXCEPT !.pc = Onward(q).pc]
         /\ Onward(q).pc \in {"tell", "checks", "probe", "open"}
         /\ Onward(q).pc # "tell" => q.tell = {}
         /\ Onward(q).pc = "checks" => ~q.listed
BY DEF Onward, CycleRecords

\* What a cycle sees is told if it differs.
LEMMA SeesNext ==
  ASSUME NEW q \in CycleRecords, NEW ts \in SUBSET Things, WatchTyped
  PROVE  LET r == Sees(q, ts) IN
         /\ r \in CycleRecords
         /\ r.listed = q.listed /\ r.prev = q.prev /\ r.todo = q.todo /\ r.said = q.said
         /\ r.ts = q.ts /\ r.on = q.on /\ r.beside = q.beside /\ r.crowded = q.crowded
         /\ \A t \in Things : r.next[t] = IF t \in ts THEN Sight(t) ELSE q.next[t]
         /\ r.tell = {t \in ts : Differs(q.prev, t, Sight(t))}
         /\ r.pc \in {"tell", "checks", "probe", "open"}
         /\ r.pc # "tell" => r.tell = {}
         /\ r.pc = "checks" => ~q.listed
<1> DEFINE next == [t \in Things |-> IF t \in ts THEN Sight(t) ELSE q.next[t]]
           tell == {t \in ts : Differs(q.prev, t, Sight(t))}
           p == [q EXCEPT !.next = next, !.tell = tell]
<1>1. next \in [Things -> Statuses]
  BY DEF WatchTyped, Sight, Statuses, CycleRecords
<1>2. tell \in SUBSET Things
  OBVIOUS
<1>3. Sees(q, ts) = Onward(p)
  BY DEF Sees
<1> HIDE DEF next, tell
<1>4. /\ p \in CycleRecords /\ p.next = next /\ p.tell = tell
      /\ p.listed = q.listed /\ p.prev = q.prev /\ p.todo = q.todo /\ p.said = q.said
      /\ p.ts = q.ts /\ p.on = q.on /\ p.beside = q.beside /\ p.crowded = q.crowded
  BY <1>1, <1>2 DEF CycleRecords
<1> HIDE DEF p
<1>5. DEFINE r == Onward(p)
<1>6. /\ r \in CycleRecords /\ r = [p EXCEPT !.pc = r.pc]
      /\ r.pc \in {"tell", "checks", "probe", "open"}
      /\ r.pc # "tell" => p.tell = {}
      /\ r.pc = "checks" => ~p.listed
  BY <1>4, OnwardMoves
<1> HIDE DEF r
<1>7. /\ r.next = next /\ r.tell = tell
      /\ r.listed = q.listed /\ r.prev = q.prev /\ r.todo = q.todo /\ r.said = q.said
      /\ r.ts = q.ts /\ r.on = q.on /\ r.beside = q.beside /\ r.crowded = q.crowded
  BY <1>4, <1>6 DEF CycleRecords
<1>8. \A t \in Things : next[t] = IF t \in ts THEN Sight(t) ELSE q.next[t]
  BY DEF next
<1> QED BY <1>3, <1>4, <1>6, <1>7, <1>8 DEF r, tell

\* The integrations to look at are listed.
LEMMA ListNext ==
  ASSUME NEW q \in CycleRecords, NEW todo \in SUBSET Integrations
  PROVE  [q EXCEPT !.listed = TRUE, !.todo = todo] \in CycleRecords
BY DEF CycleRecords

\* What the look at one integration leaves of a cycle.
LEMMA ProbeNext ==
  ASSUME NEW q \in CycleRecords, NEW i \in Integrations, WatchTyped
  PROVE  LET r == Sees([q EXCEPT !.todo = @ \ {i}], {i}) IN
         /\ r \in CycleRecords
         /\ r.said = q.said /\ r.todo = q.todo \ {i} /\ r.listed = q.listed
         /\ r.tell \subseteq {i}
         /\ r.pc \in {"tell", "checks", "probe", "open"}
         /\ r.pc # "tell" => r.tell = {}
         /\ r.pc = "checks" => ~q.listed
<1> DEFINE p == [q EXCEPT !.todo = @ \ {i}]
<1>1. p \in CycleRecords
  BY DEF CycleRecords
<1>2. p.said = q.said /\ p.todo = q.todo \ {i} /\ p.listed = q.listed
  BY DEF CycleRecords
<1>3. {i} \in SUBSET Things
  BY DEF Things
<1> HIDE DEF p
<1> DEFINE r == Sees(p, {i})
<1>4. /\ r \in CycleRecords
      /\ r.said = p.said /\ r.todo = p.todo /\ r.listed = p.listed
  BY <1>1, <1>3, SeesNext
<1>5. r.tell = {t \in {i} : Differs(p.prev, t, Sight(t))}
  BY <1>1, <1>3, SeesNext
<1>6. /\ r.pc \in {"tell", "checks", "probe", "open"}
      /\ r.pc # "tell" => r.tell = {}
      /\ r.pc = "checks" => ~p.listed
  BY <1>1, <1>3, SeesNext
<1> HIDE DEF r
<1>7. r.tell \subseteq {i}
  BY <1>5
<1>8. r \in CycleRecords /\ r.said = q.said /\ r.todo = q.todo \ {i} /\ r.listed = q.listed
  BY <1>2, <1>4
<1> QED BY <1>2, <1>6, <1>7, <1>8 DEF r, p

\* A cycle that goes to a record in order leaves all in order.
LEMMA GoesInOrder ==
  ASSUME TypeInv, NEW c \in Cycles, NEW q \in CycleRecords, Ordered(q), Goes(c, q)
  PROVE  CyclesTyped' /\ \A d \in Cycles : Ordered(cycle'[d])
BY DEF TypeInv, TypeOK, CyclesTyped, Goes

LEMMA NoCycleInOrder == NoCycle \in CycleRecords /\ Ordered(NoCycle)
<1>1. Docker \in Things /\ Unknown \in [Things -> Statuses]
  BY Distinct DEF Things, Unknown, Statuses
<1> QED BY <1>1 DEF NoCycle, CycleRecords, Ordered, Seen

\* Once the event is recorded, or lost, the cycle goes on in order.
LEMMA RecordedInOrder ==
  ASSUME TypeInv, NEW c \in Cycles, cycle[c].pc = "append"
  PROVE  LET r == Recorded(c)
             s == [r EXCEPT !.said = @ \cup {cycle[c].on}]
         IN  r \in CycleRecords /\ Ordered(r) /\ s \in CycleRecords /\ Ordered(s)
<1> DEFINE q == cycle[c]
           p == [q EXCEPT !.ts = 0, !.on = Docker, !.beside = FALSE]
           r == Onward(p)
           s == [r EXCEPT !.said = @ \cup {q.on}]
<1>1. q \in CycleRecords /\ Ordered(q) /\ Docker \in Things /\ q.on \in Things
  BY Distinct DEF TypeInv, TypeOK, CyclesTyped, CycleRecords, Things
<1>2. /\ p \in CycleRecords
      /\ p.said = q.said /\ p.tell = q.tell /\ p.todo = q.todo /\ p.listed = q.listed
  BY <1>1 DEF CycleRecords
<1> HIDE DEF p
<1>3. /\ r \in CycleRecords /\ r = [p EXCEPT !.pc = r.pc]
      /\ r.pc \in {"tell", "checks", "probe", "open"}
      /\ r.pc # "tell" => p.tell = {}
      /\ r.pc = "checks" => ~p.listed
  BY <1>2, OnwardMoves
<1>4. Recorded(c) = r
  BY DEF Recorded, p
<1> HIDE DEF r
<1>5. r.said = q.said /\ r.tell = q.tell /\ r.todo = q.todo /\ r.listed = q.listed
  BY <1>2, <1>3 DEF CycleRecords
<1>6. Ordered(r)
  BY <1>1, <1>2, <1>3, <1>5 DEF Ordered, Seen
<1>7. /\ s \in CycleRecords
      /\ s.said = q.said \cup {q.on} /\ s.tell = q.tell /\ s.todo = q.todo
      /\ s.listed = q.listed /\ s.pc = r.pc
  BY <1>1, <1>3, <1>5 DEF CycleRecords
<1> HIDE DEF s
<1>8. Ordered(s)
  BY <1>1, <1>2, <1>3, <1>7 DEF Ordered, Seen
<1> QED BY <1>3, <1>4, <1>6, <1>7, <1>8 DEF s

\* The cycles stay in order under every step of one of them.
LEMMA StepInOrder ==
  ASSUME TypeInv, NEW c \in Cycles, Step(c)
  PROVE  CyclesTyped' /\ \A d \in Cycles : Ordered(cycle'[d])
<1> DEFINE q == cycle[c]
           Goal == CyclesTyped' /\ \A d \in Cycles : Ordered(cycle'[d])
<1>1. q \in CycleRecords /\ Ordered(q) /\ CyclesTyped /\ WatchTyped /\ LogTyped
  BY DEF TypeInv, TypeOK, CyclesTyped
<1>2. CASE LoadState(c)
  <2> DEFINE prev == IF file \in {Empty, Torn} THEN Unknown ELSE file
             next == [t \in Things |-> IF t \in Integrations THEN prev[t] ELSE "unknown"]
             r == [q EXCEPT !.pc = "look", !.prev = prev, !.next = next]
  <2>1. q.pc = "load" /\ Goes(c, r)
    BY <1>2 DEF LoadState
  <2>2. prev \in [Things -> Statuses] /\ next \in [Things -> Statuses]
    BY <1>1 DEF WatchTyped, Unknown, Statuses
  <2> HIDE DEF prev, next
  <2>3. r \in CycleRecords /\ Ordered(r)
    BY <1>1, <2>1, <2>2 DEF CycleRecords, Ordered, Seen
  <2> QED BY <2>1, <2>3, GoesInOrder
<1>3. CASE Look(c)
  <2> DEFINE ts == IF watcher = "watchdog" THEN Images ELSE Paths
             r == Sees(q, ts)
  <2>1. q.pc = "look" /\ Goes(c, r)
    BY <1>3 DEF Look
  <2>2. ts \in SUBSET Things /\ ts \cap Integrations = {}
    BY Distinct DEF Things
  <2> HIDE DEF ts
  <2>3. r \in CycleRecords
    BY <1>1, <2>2, SeesNext
  <2>4. /\ r.said = {} /\ r.todo = {} /\ r.tell \subseteq ts /\ r.listed = q.listed
        /\ r.pc \in {"tell", "checks", "probe", "open"}
        /\ r.pc # "tell" => r.tell = {}
        /\ r.pc = "checks" => ~r.listed
    BY <1>1, <2>1, <2>2, SeesNext DEF Ordered
  <2> HIDE DEF r
  <2>5. Ordered(r)
    BY <2>2, <2>4 DEF Ordered, Seen
  <2> QED BY <2>1, <2>3, <2>5, GoesInOrder
<1>4. CASE BuildChecks(c)
  <2> DEFINE p == [q EXCEPT !.listed = TRUE, !.todo = configured]
             r == Onward(p)
  <2>1. q.pc = "checks" /\ Goes(c, r)
    BY <1>4 DEF BuildChecks
  <2>2. p \in CycleRecords /\ p.said = q.said /\ p.tell = {} /\ p.listed /\ p.todo = configured
    BY <1>1, <2>1 DEF CycleRecords, WatchTyped, Ordered
  <2>3. q.said \cap configured = {}
    BY <1>1, <2>1 DEF Ordered, Seen, WatchTyped
  <2> HIDE DEF p
  <2>4. r \in CycleRecords /\ r = [p EXCEPT !.pc = r.pc] /\ r.pc \in {"tell", "checks", "probe", "open"}
        /\ (r.pc = "checks" => ~p.listed)
    BY <2>2, OnwardMoves
  <2> HIDE DEF r
  <2>5. r.said = q.said /\ r.tell = {} /\ r.listed /\ r.todo = configured
    BY <2>2, <2>4 DEF CycleRecords
  <2>6. Ordered(r)
    BY <2>2, <2>3, <2>4, <2>5 DEF Ordered, Seen
  <2> QED BY <2>1, <2>4, <2>6, GoesInOrder
<1>5. ASSUME NEW i \in Integrations, Probe(c, i) PROVE Goal
  <2> DEFINE r == Sees([q EXCEPT !.todo = @ \ {i}], {i})
  <2>1. q.pc = "probe" /\ i \in q.todo /\ Goes(c, r)
    BY <1>5 DEF Probe
  <2>2. q.listed /\ q.todo \cap q.said = {}
    BY <1>1, <2>1 DEF Ordered, Seen, Things
  <2>3. /\ r \in CycleRecords
        /\ r.said = q.said /\ r.todo = q.todo \ {i} /\ r.listed = q.listed
        /\ r.tell \subseteq {i}
        /\ r.pc \in {"tell", "checks", "probe", "open"}
        /\ r.pc # "tell" => r.tell = {}
        /\ r.pc = "checks" => ~q.listed
    BY <1>1, ProbeNext
  <2> HIDE DEF r
  <2>4. Ordered(r)
    BY <2>1, <2>2, <2>3 DEF Ordered, Seen
  <2> QED BY <2>1, <2>3, <2>4, GoesInOrder
<1>6. CASE Stamp(c)
  <2>1. PICK t \in cycle[c].tell :
          cycle' = [d \in Cycles |->
            IF d = c THEN [cycle[c] EXCEPT !.pc = "append", !.on = t, !.tell = @ \ {t},
                             !.ts = stamp', !.beside = Recording # {}]
            ELSE IF d \in Recording THEN [cycle[d] EXCEPT !.beside = TRUE]
            ELSE cycle[d]]
    BY <1>6 DEF Stamp
  <2>2. stamp' \in Nat /\ stamp' > 0 /\ q.pc = "tell" /\ t \in Things
    <3>1. stamp' = stamp + 1 /\ q.pc = "tell"
      BY <1>6 DEF Stamp
    <3>2. stamp \in Nat
      BY <1>1 DEF LogTyped
    <3>3. q.tell \subseteq Things
      BY <1>1 DEF CycleRecords
    <3>4. stamp' \in Nat /\ stamp' > 0
      BY <3>1, <3>2
    <3>5. t \in Things
      BY <3>3
    <3> QED BY <3>1, <3>4, <3>5
  <2> DEFINE beside == Recording # {}
             tell == q.tell \ {t}
             on == stamp'
  <2>3. cycle'[c] = [q EXCEPT !.pc = "append", !.on = t, !.tell = tell, !.ts = on,
                       !.beside = beside]
    BY <2>1
  <2>9. beside \in BOOLEAN /\ tell \in SUBSET Things /\ on \in Nat
    <3>1. q.tell \in SUBSET Things
      BY <1>1 DEF CycleRecords
    <3> QED BY <2>2, <3>1
  <2> HIDE DEF beside, tell, on
  <2>8. /\ cycle'[c] \in CycleRecords
        /\ cycle'[c].pc = "append" /\ cycle'[c].on = t /\ cycle'[c].tell = tell
        /\ cycle'[c].ts = on
        /\ cycle'[c].said = q.said /\ cycle'[c].todo = q.todo /\ cycle'[c].listed = q.listed
    <3>1. q \in CycleRecords /\ t \in Things
      BY <1>1, <2>2
    <3>2. PICK x \in CycleRecords : x = q
      BY <3>1
    <3>3. PICK y : y = cycle'[c]
      OBVIOUS
    <3>4. y = [x EXCEPT !.pc = "append", !.on = t, !.tell = tell, !.ts = on, !.beside = beside]
      BY <2>3, <3>2, <3>3
    <3>5. y \in CycleRecords
      BY <2>9, <3>1, <3>4 DEF CycleRecords
    <3>6. /\ y.pc = "append" /\ y.on = t /\ y.tell = tell /\ y.ts = on
          /\ y.said = x.said /\ y.todo = x.todo /\ y.listed = x.listed
      BY <3>4 DEF CycleRecords
    <3> QED BY <3>2, <3>3, <3>5, <3>6
  <2>4. cycle'[c] \in CycleRecords
    BY <2>8
  <2>5. Ordered(cycle'[c])
    <3>1. /\ cycle'[c].pc = "append" /\ cycle'[c].on = t /\ cycle'[c].tell = q.tell \ {t}
          /\ cycle'[c].ts = stamp' /\ cycle'[c].said = q.said /\ cycle'[c].todo = q.todo
          /\ cycle'[c].listed = q.listed
      BY <2>8 DEF tell, on
    <3>3. t \in q.tell
      OBVIOUS
    <3>2. Seen(cycle'[c]) = Seen(q)
      BY <2>2, <3>1, <3>3 DEF Seen
    <3> QED BY <1>1, <2>2, <3>1, <3>2 DEF Ordered
  <2>6. ASSUME NEW d \in Cycles, d # c PROVE cycle'[d] \in CycleRecords /\ Ordered(cycle'[d])
    <3>1. cycle[d] \in CycleRecords /\ Ordered(cycle[d])
      BY DEF TypeInv, TypeOK, CyclesTyped
    <3>2. CASE d \in Recording
      <4>1. cycle'[d] = [cycle[d] EXCEPT !.beside = TRUE]
        BY <2>1, <2>6, <3>2
      <4> QED BY <3>1, <4>1 DEF CycleRecords, Ordered, Seen
    <3>3. CASE d \notin Recording
      BY <2>1, <2>6, <3>1, <3>3
    <3> QED BY <3>2, <3>3
  <2>7. cycle' = [d \in Cycles |-> cycle'[d]]
    BY <2>1
  <2> QED BY <2>4, <2>5, <2>6, <2>7 DEF CyclesTyped
<1>7. CASE AppendEvent(c)
  <2> DEFINE r == Recorded(c)
             r2 == [r EXCEPT !.said = @ \cup {q.on}]
  <2>1. q.pc = "append" /\ (Goes(c, r) \/ Goes(c, r2))
    BY <1>7 DEF AppendEvent
  <2>2. r \in CycleRecords /\ Ordered(r) /\ r2 \in CycleRecords /\ Ordered(r2)
    BY <1>1, <2>1, RecordedInOrder
  <2> QED BY <2>1, <2>2, GoesInOrder
<1>8. CASE OpenState(c)
  <2> DEFINE r == [q EXCEPT !.pc = "write"]
  <2>1. q.pc = "open" /\ Goes(c, r)
    BY <1>8 DEF OpenState
  <2>2. r \in CycleRecords /\ Ordered(r)
    BY <1>1, <2>1 DEF CycleRecords, Ordered, Seen
  <2> QED BY <2>1, <2>2, GoesInOrder
<1>9. CASE WriteState(c)
  BY <1>9, NoCycleInOrder, GoesInOrder DEF WriteState, Ends
<1> QED BY <1>2, <1>3, <1>4, <1>5, <1>6, <1>7, <1>8, <1>9 DEF Step

LEMMA FaultInOrder ==
  ASSUME TypeInv, NEW c \in Cycles, Fault(c)
  PROVE  CyclesTyped' /\ \A d \in Cycles : Ordered(cycle'[d])
<1> DEFINE q == cycle[c]
<1>1. q \in CycleRecords /\ Ordered(q)
  BY DEF TypeInv, TypeOK, CyclesTyped
<1>2. CASE Hang(c)
  <2> DEFINE r == [q EXCEPT !.pc = "hung"]
  <2>1. q.pc = "look" /\ Goes(c, r)
    BY <1>2 DEF Hang
  <2>2. r \in CycleRecords /\ Ordered(r)
    BY <1>1, <2>1 DEF CycleRecords, Ordered, Seen
  <2> QED BY <2>1, <2>2, GoesInOrder
<1>3. CASE AppendFails(c)
  BY <1>3, RecordedInOrder, GoesInOrder DEF AppendFails
<1>4. CASE SaveFails(c) \/ Abandon(c)
  BY <1>4, NoCycleInOrder, GoesInOrder DEF SaveFails, Abandon, Ends
<1> QED BY <1>2, <1>3, <1>4 DEF Fault

LEMMA StartInOrder ==
  ASSUME TypeInv, NEW c \in Cycles, StartWatchdog(c) \/ StartGitops(c)
  PROVE  CyclesTyped' /\ \A d \in Cycles : Ordered(cycle'[d])
<1>1. CASE StartWatchdog(c)
  <2> DEFINE r == [NoCycle EXCEPT !.pc = "load", !.listed = FALSE]
  <2>1. r \in CycleRecords /\ Ordered(r)
    BY NoCycleInOrder DEF CycleRecords, NoCycle, Ordered, Seen
  <2> QED BY <1>1, <2>1, GoesInOrder DEF StartWatchdog
<1>2. CASE StartGitops(c)
  <2> DEFINE r == [NoCycle EXCEPT !.pc = "load", !.crowded = InFlight # {}]
  <2>1. r \in CycleRecords /\ Ordered(r)
    BY NoCycleInOrder DEF CycleRecords, NoCycle, Ordered, Seen
  <2> HIDE DEF r
  <2>2. cycle' = [d \in Cycles |-> IF d = c THEN r
                                   ELSE IF d \in InFlight THEN [cycle[d] EXCEPT !.crowded = TRUE]
                                   ELSE cycle[d]]
    BY <1>2 DEF StartGitops, r
  <2>3. ASSUME NEW d \in Cycles
        PROVE  cycle'[d] \in CycleRecords /\ Ordered(cycle'[d])
    <3>1. cycle[d] \in CycleRecords /\ Ordered(cycle[d])
      BY DEF TypeInv, TypeOK, CyclesTyped
    <3>2. CASE d # c /\ d \in InFlight
      <4>1. cycle'[d] = [cycle[d] EXCEPT !.crowded = TRUE]
        BY <2>2, <3>2
      <4> QED BY <3>1, <4>1 DEF CycleRecords, Ordered, Seen
    <3>3. CASE ~(d # c /\ d \in InFlight)
      BY <2>1, <2>2, <3>1, <3>3
    <3> QED BY <3>2, <3>3
  <2> QED BY <2>2, <2>3 DEF CyclesTyped
<1> QED BY <1>1, <1>2

-----------------------------------------------------------------------------
(* The log, the cursors and the files.                                     *)

\* What is in the log was stamped.
LEMMA StampsTyped ==
  ASSUME LogTyped
  PROVE  /\ Stamps \subseteq Nat \ {0}
         /\ log # <<>> => log[Len(log)] \in Stamps
         /\ \A s : LET longer == Append(log, s)
                   IN  {longer[i] : i \in DOMAIN longer} = Stamps \cup {s}
<1>1. log \in Seq(Nat \ {0}) /\ DOMAIN log = 1 .. Len(log) /\ Len(log) \in Nat
  BY DEF LogTyped
<1>2. Stamps \subseteq Nat \ {0}
  BY <1>1 DEF Stamps
<1>3. log # <<>> => log[Len(log)] \in Stamps
  <2>1. log # <<>> => Len(log) > 0
    BY <1>1
  <2> QED BY <1>1, <2>1 DEF Stamps
<1>4. ASSUME NEW s
      PROVE  LET longer == Append(log, s)
             IN  {longer[i] : i \in DOMAIN longer} = Stamps \cup {s}
  <2> DEFINE longer == Append(log, s)
  <2>1. DOMAIN longer = 1 .. Len(log) + 1
    BY <1>1
  <2>2. longer[Len(log) + 1] = s /\ \A i \in 1 .. Len(log) : longer[i] = log[i]
    BY <1>1
  <2> HIDE DEF longer
  <2>3. \A i \in DOMAIN longer : longer[i] \in Stamps \cup {s}
    BY <1>1, <2>1, <2>2 DEF Stamps
  <2>4. \A i \in DOMAIN log : i \in DOMAIN longer /\ longer[i] = log[i]
    BY <1>1, <2>1, <2>2
  <2>5. Len(log) + 1 \in DOMAIN longer
    BY <1>1, <2>1
  <2>6. Stamps \cup {s} \subseteq {longer[i] : i \in DOMAIN longer}
    BY <2>2, <2>4, <2>5 DEF Stamps
  <2> QED BY <2>3, <2>6 DEF longer
<1> QED BY <1>2, <1>3, <1>4

LEMMA LogStaysTyped ==
  ASSUME TypeInv, Next
  PROVE  LogTyped'
<1>1. LogTyped /\ CyclesTyped /\ (\A c \in Cycles : Ordered(cycle[c]))
  BY DEF TypeInv, TypeOK
<1> USE <1>1 DEF LogTyped
<1>2. CASE UNCHANGED <<lines, reader>>
  BY <1>2 DEF lines, reader
<1>3. ASSUME NEW c \in Cycles, Stamp(c) PROVE LogTyped'
  <2>1. stamp' = stamp + 1 /\ UNCHANGED <<log, glued, click, cursor, since, now>>
    BY <1>3 DEF Stamp, reader
  <2>2. stamp' \in Nat
    BY <2>1
  <2> QED BY <2>1, <2>2
<1>4. ASSUME NEW c \in Cycles, AppendEvent(c) PROVE LogTyped'
  <2>1. cycle[c].ts \in Nat \ {0}
    BY <1>4 DEF AppendEvent, Ordered, CyclesTyped, CycleRecords
  <2>2. log' \in Seq(Nat \ {0})
    <3> DEFINE P == Nat \ {0}
    <3>1. log \in Seq(P) /\ cycle[c].ts \in P
      BY <2>1
    <3>2. log' = log \/ log' = Append(log, cycle[c].ts)
      BY <1>4 DEF AppendEvent
    <3> HIDE DEF P
    <3>3. log' \in Seq(P)
      BY <3>1, <3>2
    <3> QED BY <3>3 DEF P
  <2> QED BY <1>4, <2>2 DEF AppendEvent, reader
<1>5. ASSUME NEW c \in Cycles, WriteState(c) PROVE LogTyped'
  BY <1>5 DEF WriteState, reader
<1>6. CASE Restart
  BY <1>6 DEF Restart
<1>7. CASE Poll \/ MarkAllRead
  BY <1>7, StampsTyped DEF Poll, MarkAllRead, Clicks, lines
<1>8. CASE MarkAllReadNow \/ SaveCursor
  BY <1>8 DEF MarkAllReadNow, SaveCursor, lines
<1>9. CASE World \/ Start
  BY <1>2, <1>9 DEF World, ThingChanges, Configure, Start, StartWatchdog, StartGitops
<1>10. ASSUME NEW c \in Cycles, Fault(c) PROVE LogTyped'
  <2>1. CASE AppendFails(c)
    BY <2>1 DEF AppendFails, reader
  <2> QED BY <1>2, <1>10, <2>1 DEF Fault, Hang, SaveFails, Abandon
<1>11. ASSUME NEW c \in Cycles, Step(c) PROVE LogTyped'
  BY <1>2, <1>3, <1>4, <1>5, <1>11 DEF Step, LoadState, Look, BuildChecks, Probe, OpenState
<1> QED BY <1>6, <1>7, <1>8, <1>9, <1>10, <1>11 DEF Next, Reader

LEMMA WatchStaysTyped ==
  ASSUME TypeInv, Next
  PROVE  WatchTyped'
<1>1. WatchTyped /\ CyclesTyped
  BY DEF TypeInv, TypeOK
<1> DEFINE Same == UNCHANGED <<watcher, truth, configured, file, cycleInFlight, told, blurred>>
<1>2. CASE Same
  BY <1>1, <1>2 DEF WatchTyped
<1>3. CASE World
  BY <1>1, <1>3 DEF World, ThingChanges, Configure, WatchTyped, Other, watch, lines, Watched
<1>4. CASE Start
  BY <1>1, <1>4 DEF Start, StartWatchdog, StartGitops, WatchTyped, world, lines
<1>5. ASSUME NEW c \in Cycles, Step(c) PROVE WatchTyped'
  <2>1. cycle[c] \in CycleRecords
    BY <1>1 DEF CyclesTyped
  <2>2. CASE LoadState(c) \/ Look(c) \/ BuildChecks(c) \/ (\E i \in Integrations : Probe(c, i)) \/ Stamp(c)
    BY <1>2, <2>2 DEF LoadState, Look, BuildChecks, Probe, Stamp, world, lines
  <2>3. CASE AppendEvent(c)
    <3>1. cycle[c].on \in Things /\ cycle[c].next[cycle[c].on] \in Statuses
      BY <2>1 DEF CycleRecords
    <3> QED BY <1>1, <2>3, <3>1 DEF AppendEvent, WatchTyped, world
  <2>4. CASE OpenState(c)
    BY <1>1, <2>4 DEF OpenState, WatchTyped, world, lines
  <2>5. CASE WriteState(c)
    <3>1. file' \in [Things -> Statuses] \cup {Empty, Torn}
      BY <2>1, <2>5 DEF WriteState, CycleRecords
    <3>2. told' \in [Things -> Statuses]
      <4>1. told' = ToldAfter(c) /\ told \in [Things -> Statuses] /\ cycle[c].next \in [Things -> Statuses]
        BY <1>1, <2>1, <2>5 DEF WriteState, CycleRecords, WatchTyped
      <4> QED BY <4>1 DEF ToldAfter
    <3>3. blurred' \subseteq Things
      BY <1>1, <2>5 DEF WriteState, BlurredAfter, WatchTyped
    <3> QED BY <1>1, <2>5, <3>1, <3>2, <3>3 DEF WriteState, Ends, WatchTyped, world
  <2> QED BY <1>5, <2>2, <2>3, <2>4, <2>5 DEF Step
<1>6. ASSUME NEW c \in Cycles, Fault(c) PROVE WatchTyped'
  <2>1. cycle[c].on \in Things /\ cycle[c].said \subseteq Things
    BY <1>1 DEF CyclesTyped, CycleRecords
  <2> QED BY <1>1, <1>6, <2>1 DEF Fault, Hang, AppendFails, SaveFails, Abandon, Ends, WatchTyped, world, lines
<1>7. CASE Restart
  <2>1. UNION {cycle[c].said : c \in Cycles} \subseteq Things
    BY <1>1 DEF CyclesTyped, CycleRecords
  <2> QED BY <1>1, <1>7, <2>1 DEF Restart, WatchTyped, world
<1>8. CASE Reader
  BY <1>2, <1>8 DEF Reader, Poll, MarkAllRead, MarkAllReadNow, SaveCursor, Clicks, world, watch, lines
<1> QED BY <1>3, <1>4, <1>5, <1>6, <1>7, <1>8 DEF Next

LEMMA TypeStep ==
  ASSUME TypeInv, [Next]_vars
  PROVE  TypeInv'
<1> DEFINE InOrder == CyclesTyped' /\ \A d \in Cycles : Ordered(cycle'[d])
<1>1. CASE UNCHANGED vars
  BY <1>1 DEF TypeInv, TypeOK, CyclesTyped, LogTyped, WatchTyped, vars, world, watch, lines, reader
<1>2. ASSUME UNCHANGED cycle PROVE InOrder
  BY <1>2 DEF TypeInv, TypeOK, CyclesTyped
<1>3. ASSUME Next PROVE InOrder
  <2>1. CASE World \/ Reader
    BY <1>2, <2>1 DEF World, ThingChanges, Configure, Reader, Poll, MarkAllRead, MarkAllReadNow,
                      SaveCursor, watch
  <2>2. CASE Restart
    BY <2>2, NoCycleInOrder DEF Restart, CyclesTyped
  <2>3. CASE Start
    BY <2>3, StartInOrder DEF Start
  <2>4. CASE \E c \in Cycles : Step(c) \/ Fault(c)
    BY <2>4, StepInOrder, FaultInOrder
  <2> QED BY <1>3, <2>1, <2>2, <2>3, <2>4 DEF Next
<1>4. CASE Next
  BY <1>3, <1>4, LogStaysTyped, WatchStaysTyped DEF TypeInv, TypeOK
<1> QED BY <1>1, <1>4

LEMMA TypeInvHolds == Spec => []TypeInv
<1>1. Init => TypeInv
  <2>1. SUFFICES ASSUME Init PROVE TypeInv
    OBVIOUS
  <2>2. CyclesTyped /\ \A c \in Cycles : Ordered(cycle[c])
    BY <2>1, NoCycleInOrder DEF Init, CyclesTyped
  <2>3. LogTyped
    <3>1. <<>> \in Seq(Nat \ {0})
      OBVIOUS
    <3> QED BY <2>1, <3>1 DEF Init, LogTyped
  <2>4. WatchTyped
    BY <2>1, Distinct DEF Init, WatchTyped, Unknown, Statuses
  <2> QED BY <2>2, <2>3, <2>4 DEF TypeInv, TypeOK
<1> QED BY <1>1, TypeStep, PTL DEF Spec

\* watchdog.ts, gitopsReconciler.ts, notificationsStore.ts,
\* notificationsSlice.ts: every variable keeps its type, for any things,
\* cycles, changes, errors, restarts and clicks.
THEOREM TypeCorrect == Spec => []TypeOK
<1>1. TypeInv => TypeOK
  BY DEF TypeInv
<1> QED BY <1>1, TypeInvHolds, PTL

-----------------------------------------------------------------------------
(* What the cursors rest on.                                               *)

\* Nothing is read beyond what was stamped, unless the clock was read.
Bounded ==
  /\ \A s \in Stamps : s <= stamp
  /\ \A c \in Recording : cycle[c].ts <= stamp
  /\ since <= stamp
  /\ click <= stamp \/ click <= now
  /\ cursor <= stamp \/ cursor <= now

\* Nothing was read beyond an event that is recorded alone.
Solo ==
  \A c \in Recording : ~cycle[c].beside =>
    /\ Recording = {c}
    /\ cycle[c].ts = stamp
    /\ \A s \in Stamps : s < stamp
    /\ since < stamp
    /\ click < stamp \/ stamp <= now
    /\ cursor < stamp \/ stamp <= now

CursorInv == Bounded /\ Solo

\* No event begins to be recorded.
Kept ==
  /\ Recording' \subseteq Recording
  /\ \A c \in Recording' : cycle'[c].ts = cycle[c].ts /\ cycle'[c].beside = cycle[c].beside

\* A cycle that goes elsewhere than to the record of an event.
LEMMA GoesKeeps ==
  ASSUME TypeInv, NEW c \in Cycles, NEW q, Goes(c, q), q.pc # "append"
  PROVE  Kept /\ c \notin Recording'
<1>1. cycle'[c] = q /\ \A d \in Cycles \ {c} : cycle'[d] = cycle[d]
  BY DEF Goes, TypeInv, TypeOK, CyclesTyped
<1> QED BY <1>1 DEF Kept, Recording

LEMMA RecordedMoves ==
  ASSUME TypeInv, NEW c \in Cycles
  PROVE  /\ Recorded(c).pc \in {"tell", "checks", "probe", "open"}
         /\ [Recorded(c) EXCEPT !.said = @ \cup {cycle[c].on}].pc = Recorded(c).pc
<1> DEFINE p == [cycle[c] EXCEPT !.ts = 0, !.on = Docker, !.beside = FALSE]
<1>3. cycle[c] \in CycleRecords /\ Docker \in Things
  BY Distinct DEF TypeInv, TypeOK, CyclesTyped, Things
<1>1. p \in CycleRecords
  BY <1>3 DEF CycleRecords
<1> HIDE DEF p
<1>2. Onward(p) \in CycleRecords /\ Onward(p).pc \in {"tell", "checks", "probe", "open"}
  BY <1>1, OnwardMoves
<1>4. \A x \in CycleRecords : \A y : [x EXCEPT !.said = y].pc = x.pc
  BY DEF CycleRecords
<1>5. Recorded(c) = Onward(p)
  BY DEF Recorded, p
<1> QED BY <1>2, <1>4, <1>5

LEMMA AppendKeeps ==
  ASSUME TypeInv, NEW c \in Cycles, AppendEvent(c)
  PROVE  Kept /\ c \in Recording \ Recording'
<1>1. c \in Recording
  BY DEF AppendEvent, Recording
<1>2. Goes(c, Recorded(c)) \/ Goes(c, [Recorded(c) EXCEPT !.said = @ \cup {cycle[c].on}])
  BY DEF AppendEvent
<1> QED BY <1>1, <1>2, RecordedMoves, GoesKeeps

\* The records of events are only begun by Stamp.
LEMMA OnlyStampRecords ==
  ASSUME TypeInv, Next
  PROVE  Kept \/ \E c \in Cycles : Stamp(c)
<1>1. \A c \in Cycles : cycle[c] \in CycleRecords
  BY DEF TypeInv, TypeOK, CyclesTyped
<1>2. ASSUME UNCHANGED cycle PROVE Kept
  BY <1>2 DEF Kept, Recording
<1>3. CASE World \/ Reader
  BY <1>2, <1>3 DEF World, ThingChanges, Configure, Reader, Poll, MarkAllRead, MarkAllReadNow,
                    SaveCursor, watch
<1>4. CASE Restart
  BY <1>4 DEF Restart, NoCycle, Kept, Recording
<1>5. ASSUME NEW c \in Cycles, StartWatchdog(c) PROVE Kept
  <2>1. [NoCycle EXCEPT !.pc = "load", !.listed = FALSE].pc # "append"
    BY DEF NoCycle
  <2> QED BY <1>5, <2>1, GoesKeeps DEF StartWatchdog
<1>6. ASSUME NEW c \in Cycles, StartGitops(c) PROVE Kept
  <2>1. cycle' = [d \in Cycles |->
          IF d = c THEN [NoCycle EXCEPT !.pc = "load", !.crowded = InFlight # {}]
          ELSE IF d \in InFlight THEN [cycle[d] EXCEPT !.crowded = TRUE]
          ELSE cycle[d]]
    BY <1>6 DEF StartGitops
  <2>2. cycle'[c].pc # "append"
    BY <2>1 DEF NoCycle
  <2>3. ASSUME NEW d \in Cycles \ {c}
        PROVE  /\ cycle'[d].pc = cycle[d].pc /\ cycle'[d].ts = cycle[d].ts
               /\ cycle'[d].beside = cycle[d].beside
    BY <1>1, <2>1 DEF CycleRecords
  <2> QED BY <2>2, <2>3 DEF Kept, Recording
<1>7. ASSUME NEW c \in Cycles, Step(c) PROVE Kept \/ Stamp(c)
  <2> DEFINE q == cycle[c]
  <2>1. CASE LoadState(c)
    <3> DEFINE prev == IF file \in {Empty, Torn} THEN Unknown ELSE file
               r == [q EXCEPT !.pc = "look", !.prev = prev,
                       !.next = [t \in Things |-> IF t \in Integrations THEN prev[t] ELSE "unknown"]]
    <3>1. r.pc # "append"
      BY <1>1 DEF CycleRecords
    <3> QED BY <2>1, <3>1, GoesKeeps DEF LoadState
  <2>2. CASE Look(c)
    <3>1. \A ts \in SUBSET Things : Sees(q, ts).pc # "append"
      BY <1>1, SeesNext DEF TypeInv, TypeOK
    <3>2. Images \in SUBSET Things /\ Paths \in SUBSET Things
      BY DEF Things
    <3> QED BY <2>2, <3>1, <3>2, GoesKeeps DEF Look
  <2>3. CASE BuildChecks(c)
    <3> DEFINE p == [q EXCEPT !.listed = TRUE, !.todo = configured]
    <3>3. configured \in SUBSET Integrations
      BY DEF TypeInv, TypeOK, WatchTyped
    <3>1. p \in CycleRecords
      BY <1>1, <3>3, ListNext
    <3>2. Onward(p).pc # "append"
      BY <3>1, OnwardMoves
    <3> QED BY <2>3, <3>2, GoesKeeps DEF BuildChecks
  <2>4. ASSUME NEW i \in Integrations, Probe(c, i) PROVE Kept
    <3>1. Sees([q EXCEPT !.todo = @ \ {i}], {i}).pc # "append"
      BY <1>1, ProbeNext DEF TypeInv, TypeOK
    <3> QED BY <2>4, <3>1, GoesKeeps DEF Probe
  <2>5. CASE AppendEvent(c)
    BY <2>5, AppendKeeps
  <2>6. CASE OpenState(c)
    <3>1. [q EXCEPT !.pc = "write"].pc # "append"
      BY <1>1 DEF CycleRecords
    <3> QED BY <2>6, <3>1, GoesKeeps DEF OpenState
  <2>7. CASE WriteState(c)
    <3>1. NoCycle.pc # "append"
      BY DEF NoCycle
    <3> QED BY <2>7, <3>1, GoesKeeps DEF WriteState, Ends
  <2> QED BY <1>7, <2>1, <2>2, <2>3, <2>4, <2>5, <2>6, <2>7 DEF Step
<1>8. ASSUME NEW c \in Cycles, Fault(c) PROVE Kept
  <2>1. NoCycle.pc # "append" /\ [cycle[c] EXCEPT !.pc = "hung"].pc # "append"
    BY <1>1 DEF NoCycle, CycleRecords
  <2>2. CASE AppendFails(c)
    BY <2>2, RecordedMoves, GoesKeeps DEF AppendFails
  <2> QED BY <1>8, <2>1, <2>2, GoesKeeps DEF Fault, Hang, SaveFails, Abandon, Ends
<1> QED BY <1>3, <1>4, <1>5, <1>6, <1>7, <1>8 DEF Next, Start

LEMMA CursorStep ==
  ASSUME TypeInv, CursorInv, [Next]_vars
  PROVE  CursorInv'
<1>1. LogTyped /\ LogTyped'
  BY TypeStep DEF TypeInv, TypeOK
<1>2. Bounded /\ Solo /\ \A c \in Cycles : cycle[c] \in CycleRecords
  BY DEF CursorInv, TypeInv, TypeOK, CyclesTyped
<1>3. \A c \in Recording : cycle[c].ts \in Nat
  BY <1>2 DEF Recording, CycleRecords
<1> DEFINE Log == Stamps' = Stamps /\ stamp' = stamp
<1>4. ASSUME Kept, stamp' = stamp, now' >= now,
             \A s \in Stamps' : s \in Stamps \/ \E c \in Recording \ Recording' : s = cycle[c].ts,
             since' = since \/ since' \in Stamps,
             \/ click' \in {click, 0} \/ click' \in Stamps
             \/ now' >= click' /\ click' >= stamp,
             cursor' \in {cursor, click}
      PROVE  CursorInv'
  <2>1. Stamps \subseteq Nat /\ Stamps' \subseteq Nat
    <3>1. log \in Seq(Nat \ {0}) /\ log' \in Seq(Nat \ {0})
      BY <1>1 DEF LogTyped
    <3> QED BY <3>1 DEF Stamps
  <2>2. Bounded'
    <3>1. \A s \in Stamps' : s <= stamp'
      BY <1>2, <1>4 DEF Bounded
    <3>2. \A c \in Recording' : cycle'[c].ts <= stamp'
      BY <1>2, <1>4 DEF Bounded, Kept
    <3>3. since' <= stamp'
      BY <1>2, <1>4 DEF Bounded
    <3>4. (click' <= stamp' \/ click' <= now') /\ (cursor' <= stamp' \/ cursor' <= now')
      BY <1>1, <1>2, <1>4, <2>1 DEF Bounded, LogTyped
    <3> QED BY <3>1, <3>2, <3>3, <3>4 DEF Bounded
  <2>3. ASSUME NEW c \in Recording', ~cycle'[c].beside
        PROVE  /\ Recording' = {c}
               /\ cycle'[c].ts = stamp'
               /\ \A s \in Stamps' : s < stamp'
               /\ since' < stamp'
               /\ click' < stamp' \/ stamp' <= now'
               /\ cursor' < stamp' \/ stamp' <= now'
    <3>1. c \in Recording /\ ~cycle[c].beside /\ cycle'[c].ts = cycle[c].ts
      BY <1>4, <2>3 DEF Kept
    <3>2. /\ Recording = {c} /\ cycle[c].ts = stamp /\ (\A s \in Stamps : s < stamp) /\ since < stamp
          /\ click < stamp \/ stamp <= now
          /\ cursor < stamp \/ stamp <= now
      BY <1>2, <3>1 DEF Solo
    <3>3. Recording' = {c} /\ \A s \in Stamps' : s \in Stamps
      BY <1>4, <2>3, <3>2 DEF Kept
    <3> QED BY <1>1, <1>4, <2>1, <3>1, <3>2, <3>3 DEF LogTyped
  <2> QED BY <2>2, <2>3 DEF CursorInv, Solo
<1>5. ASSUME NEW c \in Cycles, Stamp(c) PROVE CursorInv'
  <2>1. PICK t \in cycle[c].tell :
          cycle' = [d \in Cycles |->
            IF d = c THEN [cycle[c] EXCEPT !.pc = "append", !.on = t, !.tell = @ \ {t},
                             !.ts = stamp', !.beside = Recording # {}]
            ELSE IF d \in Recording THEN [cycle[d] EXCEPT !.beside = TRUE]
            ELSE cycle[d]]
    BY <1>5 DEF Stamp
  <2>2. /\ stamp' = stamp + 1 /\ log' = log /\ since' = since /\ click' = click
        /\ cursor' = cursor /\ now' = now /\ Stamps' = Stamps
    BY <1>5 DEF Stamp, reader, Stamps
  <2>3. cycle'[c].ts = stamp' /\ (cycle'[c].beside <=> Recording # {})
    BY <1>2, <2>1 DEF CycleRecords
  <2>4. ASSUME NEW d \in Cycles \ {c}
        PROVE  /\ d \in Recording' <=> d \in Recording
               /\ cycle'[d].ts = cycle[d].ts
               /\ d \in Recording => cycle'[d].beside
    BY <1>2, <2>1 DEF CycleRecords, Recording
  <2>5. Recording' \subseteq Cycles
    BY DEF Recording
  <2>6. Stamps \subseteq Nat
    BY <1>1, StampsTyped
  <2>7. Bounded'
    BY <1>1, <1>2, <1>3, <2>2, <2>3, <2>4, <2>5, <2>6 DEF Bounded, LogTyped
  <2>8. ASSUME NEW d \in Recording', ~cycle'[d].beside
        PROVE  d = c /\ Recording' = {c}
    BY <2>3, <2>4, <2>5, <2>8
  <2>9. /\ \A s \in Stamps' : s < stamp'
        /\ since' < stamp'
        /\ click' < stamp' \/ stamp' <= now'
        /\ cursor' < stamp' \/ stamp' <= now'
    BY <1>1, <1>2, <2>2, <2>6 DEF Bounded, LogTyped
  <2>10. Solo'
    BY <2>3, <2>8, <2>9 DEF Solo
  <2> QED BY <2>7, <2>10 DEF CursorInv
<1> DEFINE Quiet == /\ UNCHANGED <<log, stamp, reader>>
<1>6. ASSUME Kept, Quiet PROVE CursorInv'
  BY <1>1, <1>4, <1>6 DEF Stamps, reader, LogTyped
<1>7. CASE UNCHANGED vars
  BY <1>6, <1>7 DEF vars, watch, lines, Kept, Recording
<1>8. ASSUME NEW c \in Cycles, AppendEvent(c) PROVE CursorInv'
  <2>1. Kept /\ c \in Recording \ Recording'
    BY <1>8, AppendKeeps
  <2>2. \A s \in Stamps' : s \in Stamps \/ s = cycle[c].ts
    <3>1. log' = log \/ log' = Append(log, cycle[c].ts)
      BY <1>8 DEF AppendEvent
    <3> QED BY <1>1, <3>1, StampsTyped DEF Stamps
  <2>3. stamp' = stamp /\ since' = since /\ click' = click /\ cursor' = cursor /\ now' = now
    BY <1>8 DEF AppendEvent, reader
  <2> QED BY <1>1, <1>4, <2>1, <2>2, <2>3 DEF LogTyped
<1>9. ASSUME Next, Kept, \A c \in Cycles : ~AppendEvent(c) /\ ~Stamp(c) PROVE CursorInv'
  <2>1. CASE World \/ Start
    BY <1>6, <1>9, <2>1 DEF World, ThingChanges, Configure, Start, StartWatchdog, StartGitops, lines
  <2>2. CASE \E c \in Cycles : Step(c) \/ Fault(c)
    BY <1>6, <1>9, <2>2 DEF Step, LoadState, Look, BuildChecks, Probe, OpenState, WriteState,
                          Fault, Hang, AppendFails, SaveFails, Abandon, lines
  <2>3. CASE Restart
    BY <1>1, <1>4, <1>9, <2>3 DEF Restart, Stamps, LogTyped
  <2>4. CASE Poll
    BY <1>1, <1>4, <1>9, <2>4 DEF Poll, Stamps, LogTyped, lines
  <2>5. CASE MarkAllRead
    <3>1. click' \in Stamps /\ Stamps' = Stamps
      BY <1>1, <2>5, StampsTyped DEF MarkAllRead, lines, Stamps
    <3> QED BY <1>1, <1>4, <1>9, <2>5, <3>1 DEF MarkAllRead, LogTyped, lines
  <2>6. CASE MarkAllReadNow
    BY <1>1, <1>4, <1>9, <2>6 DEF MarkAllReadNow, Stamps, LogTyped, lines
  <2>7. CASE SaveCursor
    BY <1>1, <1>4, <1>9, <2>7 DEF SaveCursor, Stamps, LogTyped, lines
  <2> QED BY <1>9, <2>1, <2>2, <2>3, <2>4, <2>5, <2>6, <2>7 DEF Next, Reader
<1> QED BY <1>5, <1>7, <1>8, <1>9, OnlyStampRecords

LEMMA CursorInvHolds == Spec => []CursorInv
<1>1. Init => CursorInv
  <2>1. SUFFICES ASSUME Init PROVE CursorInv
    OBVIOUS
  <2>2. Stamps = {} /\ Recording = {}
    BY <2>1 DEF Init, Stamps, Recording, NoCycle
  <2> QED BY <2>1, <2>2 DEF Init, CursorInv, Bounded, Solo
<1> QED BY <1>1, CursorStep, TypeInvHolds, PTL DEF Spec

\* notificationsStore.ts:15-20: an event that enters the log is above the read
\* cursor, the cursor being written and the `since` of the client, unless
\* another was recorded with it or the clock was read.
THEOREM EventsEnterAbove == Spec => NothingEntersBelow
<1>1. ASSUME TypeInv, CursorInv, Next, NEW c \in Cycles,
             log' # log, cycle[c].pc = "append", cycle'[c].pc # "append"
      PROVE  \/ cycle[c].ts > cursor /\ cycle[c].ts > click /\ cycle[c].ts > since
             \/ cycle[c].beside
             \/ cycle[c].ts <= now
  BY <1>1 DEF CursorInv, Solo, Recording, TypeInv, TypeOK, LogTyped
<1>2. ASSUME TypeInv, CursorInv, [Next]_vars
      PROVE  [\A c \in Cycles : log' # log /\ cycle[c].pc = "append" /\ cycle'[c].pc # "append" =>
               \/ cycle[c].ts > cursor /\ cycle[c].ts > click /\ cycle[c].ts > since
               \/ cycle[c].beside
               \/ cycle[c].ts <= now]_vars
  BY <1>1, <1>2
<1> QED BY <1>2, TypeInvHolds, CursorInvHolds, PTL DEF Spec, NothingEntersBelow

-----------------------------------------------------------------------------
(* What the file rests on.                                                 *)

\* The guard keeps the cycles of the watchdog apart.
Guarded ==
  watcher = "watchdog" =>
    /\ InFlight # {} => cycleInFlight
    /\ \A c, d \in InFlight : c = d

\* Two cycles in flight both know of it.
Overlap ==
  \A c, d \in InFlight : c # d => cycle[c].crowded /\ cycle[d].crowded

\* What the former state has of a thing is what the log last said of it.
Known(q, says, doubts) ==
  \A t \in Things : q.prev[t] \in {"unknown", says[t]} \/ t \in doubts \/ t \in q.said

\* What was told is what will be saved.
Heard(q, says) == \A t \in q.said : says[t] = q.next[t]

\* What was seen to differ is not forgotten.
Owed(q, doubts) ==
  \A t \in Things :
    q.next[t] # "unknown" /\ Differs(q.prev, t, q.next[t]) => t \in Seen(q) \cup doubts

Trusted(q, says, doubts) == Known(q, says, doubts) /\ Heard(q, says) /\ Owed(q, doubts)

Alone(q) == q.pc \notin {"idle", "load"} /\ ~q.crowded

Faithful == \A c \in Cycles : Alone(cycle[c]) => Trusted(cycle[c], told, blurred)

FileInv == Guarded /\ Overlap /\ Faithful /\ LogTellsState

\* What is left of a cycle that goes on: it keeps saying what it said, in the
\* same company.
GoesOn(q, r) == r.pc # "idle" /\ q.said \subseteq r.said /\ r.crowded = q.crowded

\* The steps that do not end a cycle, and those that do.
Proceeds(c) ==
  \/ LoadState(c) \/ Look(c) \/ BuildChecks(c) \/ (\E i \in Integrations : Probe(c, i))
  \/ Stamp(c) \/ AppendEvent(c) \/ AppendFails(c) \/ OpenState(c) \/ Hang(c)

Finishes(c) == WriteState(c) \/ SaveFails(c) \/ Abandon(c)

\* The rest of the cycles stand as they stood.
Stand(c) ==
  \A d \in Cycles \ {c} : /\ cycle'[d].pc = cycle[d].pc /\ cycle'[d].said = cycle[d].said
                         /\ cycle'[d].crowded = cycle[d].crowded

LEMMA GoesMeans ==
  ASSUME TypeInv, NEW c \in Cycles, NEW q, Goes(c, q)
  PROVE  cycle'[c] = q /\ \A d \in Cycles \ {c} : cycle'[d] = cycle[d]
BY DEF Goes, TypeInv, TypeOK, CyclesTyped

\* What AppendEvent and AppendFails leave.
LEMMA RecordedNext ==
  ASSUME TypeInv, NEW c \in Cycles
  PROVE  LET q == cycle[c]
             r == Recorded(c)
             s == [r EXCEPT !.said = @ \cup {q.on}]
         IN  /\ r.pc \in {"tell", "checks", "probe", "open"} /\ s.pc = r.pc
             /\ r.prev = q.prev /\ r.next = q.next /\ r.tell = q.tell /\ r.said = q.said
             /\ s.prev = q.prev /\ s.next = q.next /\ s.tell = q.tell /\ s.said = q.said \cup {q.on}
             /\ r.crowded = q.crowded /\ s.crowded = q.crowded
<1> DEFINE q == cycle[c]
           p == [q EXCEPT !.ts = 0, !.on = Docker, !.beside = FALSE]
           r == Onward(p)
           s == [r EXCEPT !.said = @ \cup {q.on}]
<1>1. q \in CycleRecords /\ Docker \in Things
  BY Distinct DEF TypeInv, TypeOK, CyclesTyped, Things
<1>2. /\ p \in CycleRecords
      /\ p.prev = q.prev /\ p.next = q.next /\ p.tell = q.tell /\ p.said = q.said
      /\ p.crowded = q.crowded
  BY <1>1 DEF CycleRecords
<1>3. Recorded(c) = r
  BY DEF Recorded
<1> HIDE DEF p
<1>4. r \in CycleRecords /\ r = [p EXCEPT !.pc = r.pc] /\ r.pc \in {"tell", "checks", "probe", "open"}
  BY <1>2, OnwardMoves
<1> HIDE DEF r
<1>5. /\ r.prev = q.prev /\ r.next = q.next /\ r.tell = q.tell /\ r.said = q.said
      /\ r.crowded = q.crowded
  BY <1>2, <1>4 DEF CycleRecords
<1>6. /\ s.pc = r.pc /\ s.prev = q.prev /\ s.next = q.next /\ s.tell = q.tell
      /\ s.said = q.said \cup {q.on} /\ s.crowded = q.crowded
  BY <1>4, <1>5 DEF CycleRecords
<1> QED BY <1>3, <1>4, <1>5, <1>6

\* What a step of c leaves of the cycles, when c goes on.
LEMMA ProceedsStands ==
  ASSUME TypeInv, NEW c \in Cycles, Proceeds(c)
  PROVE  cycle[c].pc # "idle" /\ GoesOn(cycle[c], cycle'[c]) /\ Stand(c)
<1> DEFINE q == cycle[c]
           Others == \A d \in Cycles \ {c} : cycle'[d] = cycle[d]
           Goal == q.pc # "idle" /\ GoesOn(q, cycle'[c]) /\ Stand(c)
<1> USE DEF Stand
<1> SUFFICES Goal
  OBVIOUS
<1>1. \A d \in Cycles : cycle[d] \in CycleRecords
  BY DEF TypeInv, TypeOK, CyclesTyped
<1>2. q \in CycleRecords /\ Ordered(q) /\ WatchTyped
  BY DEF TypeInv, TypeOK, CyclesTyped
<1>3. CASE LoadState(c)
  <2> DEFINE prev == IF file \in {Empty, Torn} THEN Unknown ELSE file
             r == [q EXCEPT !.pc = "look", !.prev = prev,
                     !.next = [t \in Things |-> IF t \in Integrations THEN prev[t] ELSE "unknown"]]
  <2>1. q.pc = "load" /\ cycle'[c] = r /\ Others
    BY <1>3, GoesMeans DEF LoadState
  <2>2. GoesOn(q, r)
    BY <1>2 DEF CycleRecords, GoesOn
  <2> QED BY <2>1, <2>2
<1>4. CASE Look(c)
  <2> DEFINE ts == IF watcher = "watchdog" THEN Images ELSE Paths
             r == Sees(q, ts)
  <2>1. q.pc = "look" /\ cycle'[c] = r /\ Others
    BY <1>4, GoesMeans DEF Look
  <2>2. ts \in SUBSET Things
    BY DEF Things
  <2> HIDE DEF ts
  <2>3. GoesOn(q, r)
    BY <1>2, <2>2, SeesNext DEF GoesOn
  <2> QED BY <2>1, <2>3
<1>5. CASE BuildChecks(c)
  <2> DEFINE p == [q EXCEPT !.listed = TRUE, !.todo = configured]
             r == Onward(p)
  <2>1. q.pc = "checks" /\ cycle'[c] = r /\ Others
    BY <1>5, GoesMeans DEF BuildChecks
  <2>2. p \in CycleRecords /\ p.said = q.said /\ p.crowded = q.crowded
    BY <1>2 DEF CycleRecords, WatchTyped
  <2> HIDE DEF p
  <2>3. r.pc # "idle" /\ r = [p EXCEPT !.pc = r.pc]
    BY <2>2, OnwardMoves
  <2> HIDE DEF r
  <2>4. GoesOn(q, r)
    BY <2>2, <2>3 DEF GoesOn, CycleRecords
  <2> QED BY <2>1, <2>4
<1>6. ASSUME NEW i \in Integrations, Probe(c, i)
      PROVE  Goal
  <2> DEFINE p == [q EXCEPT !.todo = @ \ {i}]
             r == Sees(p, {i})
  <2>1. q.pc = "probe" /\ cycle'[c] = r /\ Others
    BY <1>6, GoesMeans DEF Probe
  <2>2. p \in CycleRecords /\ p.said = q.said /\ p.crowded = q.crowded /\ {i} \in SUBSET Things
    BY <1>2 DEF CycleRecords, Things
  <2> HIDE DEF p
  <2>3. r.said = p.said /\ r.crowded = p.crowded /\ r.pc # "idle"
    BY <1>2, <2>2, SeesNext
  <2> QED BY <2>1, <2>2, <2>3 DEF GoesOn
<1>7. CASE Stamp(c)
  <2>1. PICK t \in cycle[c].tell :
          cycle' = [d \in Cycles |->
            IF d = c THEN [cycle[c] EXCEPT !.pc = "append", !.on = t, !.tell = @ \ {t},
                             !.ts = stamp', !.beside = Recording # {}]
            ELSE IF d \in Recording THEN [cycle[d] EXCEPT !.beside = TRUE]
            ELSE cycle[d]]
    BY <1>7 DEF Stamp
  <2>2. q.pc = "tell"
    BY <1>7 DEF Stamp
  <2>3. cycle'[c].pc = "append" /\ cycle'[c].said = q.said /\ cycle'[c].crowded = q.crowded
    BY <1>2, <2>1 DEF CycleRecords
  <2>4. ASSUME NEW d \in Cycles \ {c}
        PROVE  /\ cycle'[d].pc = cycle[d].pc /\ cycle'[d].said = cycle[d].said
               /\ cycle'[d].crowded = cycle[d].crowded
    BY <1>1, <2>1 DEF CycleRecords
  <2> QED BY <2>2, <2>3, <2>4 DEF GoesOn
<1>8. CASE AppendEvent(c) \/ AppendFails(c)
  <2>1. q.pc = "append"
    BY <1>8 DEF AppendEvent, AppendFails
  <2>2. \/ Goes(c, Recorded(c))
        \/ Goes(c, [Recorded(c) EXCEPT !.said = @ \cup {q.on}])
    BY <1>8 DEF AppendEvent, AppendFails
  <2>3. /\ GoesOn(q, Recorded(c))
        /\ GoesOn(q, [Recorded(c) EXCEPT !.said = @ \cup {q.on}])
    BY RecordedNext DEF GoesOn
  <2>4. GoesOn(q, cycle'[c]) /\ Others
    BY <2>2, <2>3, GoesMeans
  <2> QED BY <2>1, <2>4
<1>9. CASE OpenState(c) \/ Hang(c)
  <2>1. q.pc \in {"open", "look"} /\ \E pc \in {"write", "hung"} : Goes(c, [q EXCEPT !.pc = pc])
    BY <1>9 DEF OpenState, Hang
  <2>2. \A pc \in {"write", "hung"} : GoesOn(q, [q EXCEPT !.pc = pc])
    BY <1>2 DEF GoesOn, CycleRecords
  <2> QED BY <2>1, <2>2, GoesMeans
<1> HIDE DEF Goal
<1> QED BY <1>3, <1>4, <1>5, <1>6, <1>7, <1>8, <1>9 DEF Proceeds

\* The same of any step.
LEMMA OthersStand ==
  ASSUME TypeInv, NEW c \in Cycles, Step(c) \/ Fault(c)
  PROVE  /\ cycle[c].pc # "idle"
         /\ GoesOn(cycle[c], cycle'[c]) \/ cycle'[c] = NoCycle
         /\ Stand(c)
<1>1. Proceeds(c) \/ Finishes(c)
  BY DEF Step, Fault, Proceeds, Finishes
<1>2. CASE Finishes(c)
  BY <1>2, GoesMeans DEF Finishes, WriteState, SaveFails, Abandon, Ends, Stand
<1> QED BY <1>1, <1>2, ProceedsStands

\* A cycle that knows of no other is the only one in flight.
LEMMA AloneInFlight ==
  ASSUME Overlap, NEW c \in InFlight, NEW d \in InFlight, ~cycle[c].crowded
  PROVE  d = c
BY DEF Overlap

LEMMA GuardStep ==
  ASSUME TypeInv, Guarded, Overlap, Next
  PROVE  Guarded' /\ Overlap'
<1>1. CASE World \/ Reader
  BY <1>1 DEF World, ThingChanges, Configure, Reader, Poll, MarkAllRead, MarkAllReadNow, SaveCursor,
              world, watch, Guarded, Overlap, InFlight
<1>2. CASE Restart
  BY <1>2 DEF Restart, NoCycle, Guarded, Overlap, InFlight
<1>3. ASSUME NEW c \in Cycles, StartWatchdog(c) PROVE Guarded' /\ Overlap'
  <2>1. InFlight = {} /\ cycleInFlight'
    BY <1>3 DEF StartWatchdog, Guarded
  <2>2. \A d \in Cycles \ {c} : cycle'[d] = cycle[d]
    BY <1>3, GoesMeans DEF StartWatchdog
  <2>3. InFlight' \subseteq {c}
    BY <2>1, <2>2 DEF InFlight
  <2> QED BY <2>1, <2>3 DEF Guarded, Overlap
<1>4. ASSUME NEW c \in Cycles, StartGitops(c) PROVE Guarded' /\ Overlap'
  <2>1. cycle' = [d \in Cycles |->
          IF d = c THEN [NoCycle EXCEPT !.pc = "load", !.crowded = InFlight # {}]
          ELSE IF d \in InFlight THEN [cycle[d] EXCEPT !.crowded = TRUE]
          ELSE cycle[d]]
    BY <1>4 DEF StartGitops
  <2>2. cycle'[c].crowded <=> InFlight # {}
    BY <2>1 DEF NoCycle
  <2>3. ASSUME NEW d \in InFlight', d # c PROVE d \in InFlight /\ cycle'[d].crowded
    BY <2>1, <2>3 DEF InFlight, CycleRecords, TypeInv, TypeOK, CyclesTyped
  <2>4. Overlap'
    BY <2>2, <2>3 DEF Overlap
  <2>5. watcher' = "gitops"
    BY <1>4 DEF StartGitops, world
  <2> QED BY <2>4, <2>5 DEF Guarded
<1>5. ASSUME NEW c \in Cycles, Step(c) \/ Fault(c) PROVE Guarded' /\ Overlap'
  <2>1. /\ c \in InFlight
        /\ c \in InFlight' => cycle'[c].crowded = cycle[c].crowded
        /\ \A d \in Cycles \ {c} : cycle'[d].crowded = cycle[d].crowded
        /\ InFlight' \subseteq InFlight
    BY <1>5, OthersStand DEF InFlight, GoesOn, NoCycle, Stand
  <2>2. Overlap'
    BY <2>1 DEF Overlap, InFlight
  <2>3. watcher' = watcher
    BY <1>5 DEF Step, LoadState, Look, BuildChecks, Probe, Stamp, AppendEvent, OpenState, WriteState,
                Fault, Hang, AppendFails, SaveFails, Abandon, world
  <2>4. cycleInFlight' = cycleInFlight \/ Goes(c, NoCycle)
    BY <1>5 DEF Step, LoadState, Look, BuildChecks, Probe, Stamp, AppendEvent, OpenState, WriteState,
                Fault, Hang, AppendFails, SaveFails, Abandon, Ends
  <2>5. Goes(c, NoCycle) => c \notin InFlight'
    BY GoesMeans DEF InFlight, NoCycle
  <2> QED BY <2>1, <2>2, <2>3, <2>4, <2>5 DEF Guarded
<1> QED BY <1>1, <1>2, <1>3, <1>4, <1>5 DEF Next, Start

\* A cycle that is alone, and steps, is the only one to be faithful.
LEMMA OneIsEnough ==
  ASSUME TypeInv, Overlap, NEW c \in Cycles, Step(c) \/ Fault(c),
         Alone(cycle'[c]) => Trusted(cycle'[c], told', blurred')
  PROVE  Faithful'
<1>1. ASSUME NEW d \in Cycles \ {c}, Alone(cycle'[d]) PROVE FALSE
  <2>1. d \in InFlight /\ ~cycle[d].crowded /\ c \in InFlight
    BY <1>1, OthersStand DEF Alone, InFlight, Stand
  <2> QED BY <1>1, <2>1, AloneInFlight
<1> QED BY <1>1 DEF Faithful

\* A cycle that looks at nothing new, and says nothing new, is as faithful as
\* it was.
LEMMA TrustCarries ==
  ASSUME NEW q, NEW r, NEW says, NEW doubts, NEW more, Trusted(q, says, doubts),
         doubts \subseteq more, r.prev = q.prev, r.next = q.next, r.said = q.said,
         Seen(q) \subseteq Seen(r) \cup more
  PROVE  Trusted(r, says, more)
BY DEF Trusted, Known, Heard, Owed

LEMMA LoadIsFaithful ==
  ASSUME TypeInv, FileInv, NEW c \in Cycles, LoadState(c), ~cycle[c].crowded
  PROVE  Trusted(cycle'[c], told', blurred')
<1> DEFINE q == cycle[c]
           prev == IF file \in {Empty, Torn} THEN Unknown ELSE file
           next == [t \in Things |-> IF t \in Integrations THEN prev[t] ELSE "unknown"]
           r == [q EXCEPT !.pc = "look", !.prev = prev, !.next = next]
<1>1. q.pc = "load" /\ cycle'[c] = r /\ told' = told /\ blurred' = blurred
  BY GoesMeans DEF LoadState, lines
<1>2. q \in CycleRecords /\ q.said = {} /\ WatchTyped
  BY <1>1 DEF TypeInv, TypeOK, CyclesTyped, Ordered
<1>3. c \in InFlight /\ \A d \in InFlight : d = c
  BY <1>1, AloneInFlight DEF InFlight, FileInv
<1>4. \A t \in Things : prev[t] \in {"unknown", told[t]} \/ t \in blurred
  <2>1. CASE file \in {Empty, Torn}
    BY <2>1 DEF Unknown
  <2>2. CASE file \notin {Empty, Torn}
    BY <1>2, <1>3, <2>2 DEF FileInv, LogTellsState
  <2> QED BY <2>1, <2>2
<1>5. \A t \in Things : next[t] \in {"unknown", prev[t]}
  OBVIOUS
<1> HIDE DEF prev, next
<1>6. r.prev = prev /\ r.next = next /\ r.said = {}
  BY <1>2 DEF CycleRecords
<1> HIDE DEF r
<1>7. Trusted(r, told, blurred)
  BY <1>4, <1>5, <1>6 DEF Trusted, Known, Heard, Owed, Differs
<1> QED BY <1>1, <1>7

\* What is looked at was not looked at before.
LEMMA SightIsFaithful ==
  ASSUME NEW q \in CycleRecords, NEW ts \in SUBSET Things, WatchTyped,
         Trusted(q, told, blurred), q.said \cap ts = {}, q.pc # "append", q.tell = {}
  PROVE  Trusted(Sees(q, ts), told, blurred)
<1> DEFINE r == Sees(q, ts)
<1>1. /\ r.prev = q.prev /\ r.said = q.said
      /\ \A t \in Things : r.next[t] = IF t \in ts THEN Sight(t) ELSE q.next[t]
      /\ r.tell = {t \in ts : Differs(q.prev, t, Sight(t))}
  BY SeesNext
<1> HIDE DEF r
<1>2. Seen(q) = q.said /\ r.said \cup r.tell \subseteq Seen(r) /\ q.said \subseteq Things
  BY <1>1 DEF Seen, CycleRecords
<1>3. Known(r, told, blurred)
  BY <1>1 DEF Trusted, Known
<1>4. Heard(r, told)
  BY <1>1, <1>2 DEF Trusted, Heard
<1>5. Owed(r, blurred)
  <2>1. SUFFICES ASSUME NEW t \in Things, r.next[t] # "unknown", Differs(r.prev, t, r.next[t])
                 PROVE  t \in Seen(r) \cup blurred
    BY DEF Owed
  <2>2. CASE t \in ts
    BY <1>1, <1>2, <2>1, <2>2
  <2>3. CASE t \notin ts
    BY <1>1, <1>2, <2>1, <2>3 DEF Trusted, Owed
  <2> QED BY <2>2, <2>3
<1> QED BY <1>3, <1>4, <1>5 DEF Trusted, r

LEMMA StepIsFaithful ==
  ASSUME TypeInv, FileInv, NEW c \in Cycles, Step(c) \/ Fault(c), Alone(cycle'[c])
  PROVE  Trusted(cycle'[c], told', blurred')
<1> DEFINE q == cycle[c]
           Goal == Trusted(cycle'[c], told', blurred')
<1>1. q \in CycleRecords /\ Ordered(q) /\ WatchTyped
  BY DEF TypeInv, TypeOK, CyclesTyped
<1>2. ~q.crowded
  BY OthersStand DEF Alone, GoesOn, NoCycle
<1>3. q.pc \notin {"idle", "load"} => Trusted(q, told, blurred)
  BY <1>2 DEF FileInv, Faithful, Alone
<1>4. CASE LoadState(c)
  BY <1>2, <1>4, LoadIsFaithful
<1>5. CASE Look(c)
  <2> DEFINE ts == IF watcher = "watchdog" THEN Images ELSE Paths
  <2>1. q.pc = "look" /\ cycle'[c] = Sees(q, ts) /\ told' = told /\ blurred' = blurred
    BY <1>5, GoesMeans DEF Look, lines
  <2>2. ts \in SUBSET Things
    BY DEF Things
  <2>3. q.said = {} /\ q.tell = {}
    BY <1>1, <2>1 DEF Ordered
  <2> HIDE DEF ts
  <2> QED BY <1>1, <1>3, <2>1, <2>2, <2>3, SightIsFaithful
<1>6. CASE BuildChecks(c)
  <2> DEFINE p == [q EXCEPT !.listed = TRUE, !.todo = configured]
             r == Onward(p)
  <2>1. q.pc = "checks" /\ cycle'[c] = r /\ told' = told /\ blurred' = blurred
    BY <1>6, GoesMeans DEF BuildChecks, lines
  <2>2. /\ p \in CycleRecords /\ p.said = q.said /\ p.tell = q.tell /\ p.prev = q.prev
        /\ p.next = q.next
    BY <1>1 DEF CycleRecords, WatchTyped
  <2> HIDE DEF p
  <2>3. r \in CycleRecords /\ r = [p EXCEPT !.pc = r.pc]
    BY <2>2, OnwardMoves
  <2> HIDE DEF r
  <2>4. r.said = q.said /\ r.tell = q.tell /\ r.prev = q.prev /\ r.next = q.next
    BY <2>2, <2>3 DEF CycleRecords
  <2>5. Seen(q) \subseteq Seen(r)
    BY <2>1, <2>4 DEF Seen
  <2> QED BY <1>3, <2>1, <2>4, <2>5, TrustCarries
<1>7. ASSUME NEW i \in Integrations, Probe(c, i) PROVE Goal
  <2> DEFINE p == [q EXCEPT !.todo = @ \ {i}]
  <2>1. /\ q.pc = "probe" /\ i \in q.todo /\ cycle'[c] = Sees(p, {i})
        /\ told' = told /\ blurred' = blurred
    BY <1>7, GoesMeans DEF Probe, lines
  <2>2. /\ p \in CycleRecords /\ p.said = q.said /\ p.tell = q.tell /\ p.prev = q.prev
        /\ p.next = q.next /\ p.pc = q.pc
    BY <1>1 DEF CycleRecords
  <2>3. q.tell = {} /\ i \notin q.said /\ {i} \in SUBSET Things
    BY <1>1, <2>1 DEF Ordered, Seen, Things
  <2> HIDE DEF p
  <2>4. Trusted(p, told, blurred)
    <3>1. Seen(q) \subseteq Seen(p)
      BY <2>2, <2>1 DEF Seen
    <3>2. Trusted(q, told, blurred)
      BY <1>3, <2>1
    <3> QED BY <2>2, <3>1, <3>2, TrustCarries
  <2> QED BY <1>1, <2>1, <2>2, <2>3, <2>4, SightIsFaithful
<1>8. CASE Stamp(c)
  <2>1. PICK t \in cycle[c].tell :
          cycle' = [d \in Cycles |->
            IF d = c THEN [cycle[c] EXCEPT !.pc = "append", !.on = t, !.tell = @ \ {t},
                             !.ts = stamp', !.beside = Recording # {}]
            ELSE IF d \in Recording THEN [cycle[d] EXCEPT !.beside = TRUE]
            ELSE cycle[d]]
    BY <1>8 DEF Stamp
  <2>2. q.pc = "tell" /\ told' = told /\ blurred' = blurred
    BY <1>8 DEF Stamp
  <2> DEFINE r == cycle'[c]
  <2>3. /\ r.said = q.said /\ r.tell = q.tell \ {t} /\ r.on = t /\ r.pc = "append"
        /\ r.prev = q.prev /\ r.next = q.next
    BY <1>1, <2>1 DEF CycleRecords
  <2> HIDE DEF r
  <2>4. Seen(q) \subseteq Seen(r)
    BY <2>2, <2>3 DEF Seen
  <2> QED BY <1>3, <2>2, <2>3, <2>4, TrustCarries DEF r
<1>9. CASE AppendEvent(c) \/ AppendFails(c)
  <2> DEFINE r == Recorded(c)
             s == [r EXCEPT !.said = @ \cup {q.on}]
  <2>1. /\ r.prev = q.prev /\ r.next = q.next /\ r.tell = q.tell /\ r.said = q.said
        /\ s.prev = q.prev /\ s.next = q.next /\ s.tell = q.tell /\ s.said = q.said \cup {q.on}
        /\ r.pc # "append" /\ s.pc # "append"
    BY RecordedNext
  <2>2. q.pc = "append"
    BY <1>9 DEF AppendEvent, AppendFails
  <2>3. \/ cycle'[c] = r /\ told' = told /\ blurred' = blurred \cup {q.on}
        \/ cycle'[c] = s /\ told' = [told EXCEPT ![q.on] = q.next[q.on]] /\ blurred' = blurred
    BY <1>9, GoesMeans DEF AppendEvent, AppendFails, lines
  <2>4. Trusted(q, told, blurred) /\ q.on \in Things /\ told \in [Things -> Statuses]
    BY <1>1, <1>3, <2>2 DEF CycleRecords, WatchTyped
  <2> HIDE DEF r, s
  <2>5. Seen(q) = q.tell \cup q.said \cup {q.on} /\ Seen(r) = q.tell \cup q.said
        /\ Seen(s) = q.tell \cup q.said \cup {q.on}
    BY <2>1, <2>2 DEF Seen
  <2>6. CASE cycle'[c] = r /\ told' = told /\ blurred' = blurred \cup {q.on}
    BY <2>1, <2>4, <2>5, <2>6, TrustCarries
  <2>7. CASE cycle'[c] = s /\ told' = [told EXCEPT ![q.on] = q.next[q.on]] /\ blurred' = blurred
    <3>1. Known(s, told', blurred)
      BY <2>1, <2>4, <2>7 DEF Trusted, Known
    <3>2. Heard(s, told')
      <4>1. q.said \subseteq Things
        BY <1>1 DEF CycleRecords
      <4> QED BY <2>1, <2>4, <2>7, <4>1 DEF Trusted, Heard
    <3>3. Owed(s, blurred)
      BY <2>1, <2>4, <2>5 DEF Trusted, Owed
    <3> QED BY <2>7, <3>1, <3>2, <3>3 DEF Trusted
  <2> QED BY <2>3, <2>6, <2>7
<1>10. CASE OpenState(c) \/ Hang(c)
  <2>1. PICK pc \in {"write", "hung"} : cycle'[c] = [q EXCEPT !.pc = pc]
    BY <1>10, GoesMeans DEF OpenState, Hang
  <2>2. q.pc \in {"open", "look"} /\ told' = told /\ blurred' = blurred
    BY <1>10 DEF OpenState, Hang, lines
  <2> DEFINE r == cycle'[c]
  <2>3. r.said = q.said /\ r.tell = q.tell /\ r.prev = q.prev /\ r.next = q.next
    BY <1>1, <2>1 DEF CycleRecords
  <2> HIDE DEF r
  <2>4. Seen(q) \subseteq Seen(r)
    BY <2>2, <2>3 DEF Seen
  <2> QED BY <1>3, <2>2, <2>3, <2>4, TrustCarries DEF r
<1>11. CASE WriteState(c) \/ SaveFails(c) \/ Abandon(c)
  BY <1>11, GoesMeans DEF WriteState, SaveFails, Abandon, Ends, Alone, NoCycle
<1> HIDE DEF Goal
<1> QED BY <1>4, <1>5, <1>6, <1>7, <1>8, <1>9, <1>10, <1>11 DEF Step, Fault, Goal

LEMMA FaithfulStep ==
  ASSUME TypeInv, FileInv, Next
  PROVE  Faithful'
<1>1. Faithful /\ Overlap /\ Guarded /\ \A c \in Cycles : cycle[c] \in CycleRecords
  BY DEF FileInv, TypeInv, TypeOK, CyclesTyped
<1>2. CASE World \/ Reader
  BY <1>1, <1>2 DEF World, ThingChanges, Configure, Reader, Poll, MarkAllRead, MarkAllReadNow,
                    SaveCursor, Clicks, watch, lines, Faithful
<1>3. CASE Restart
  BY <1>3 DEF Restart, NoCycle, Faithful, Alone
<1>4. ASSUME NEW c \in Cycles, StartWatchdog(c) PROVE Faithful'
  <2>1. cycle'[c].pc = "load" /\ \A d \in Cycles \ {c} : cycle'[d] = cycle[d]
    <3>1. [NoCycle EXCEPT !.pc = "load", !.listed = FALSE].pc = "load"
      BY DEF NoCycle
    <3> QED BY <1>4, <3>1, GoesMeans DEF StartWatchdog
  <2>2. told' = told /\ blurred' = blurred
    BY <1>4 DEF StartWatchdog, lines
  <2> QED BY <1>1, <2>1, <2>2 DEF Faithful, Alone
<1>5. ASSUME NEW c \in Cycles, StartGitops(c) PROVE Faithful'
  <2>1. cycle' = [d \in Cycles |->
          IF d = c THEN [NoCycle EXCEPT !.pc = "load", !.crowded = InFlight # {}]
          ELSE IF d \in InFlight THEN [cycle[d] EXCEPT !.crowded = TRUE]
          ELSE cycle[d]]
    BY <1>5 DEF StartGitops
  <2>2. cycle'[c].pc = "load"
    BY <2>1 DEF NoCycle
  <2>3. ASSUME NEW d \in Cycles \ {c} PROVE ~Alone(cycle'[d])
    BY <1>1, <2>1 DEF Alone, InFlight, CycleRecords
  <2> QED BY <2>2, <2>3 DEF Faithful, Alone
<1>6. ASSUME NEW c \in Cycles, Step(c) \/ Fault(c) PROVE Faithful'
  BY <1>1, <1>6, StepIsFaithful, OneIsEnough
<1> QED BY <1>2, <1>3, <1>4, <1>5, <1>6 DEF Next, Start

-----------------------------------------------------------------------------
(* The log and the file.                                                   *)

\* What tells of a thing that the log and the file may disagree.
Excused(t) == t \in blurred \/ \E c \in InFlight : t \in cycle[c].said

\* A step that leaves the file alone, and excuses what it takes from the log.
LEMMA FileStands ==
  ASSUME LogTellsState, file' = file, blurred \subseteq blurred',
         \A c \in InFlight : \A t \in cycle[c].said :
           t \in blurred' \/ (c \in InFlight' /\ t \in cycle'[c].said),
         \A t \in Things : told'[t] = told[t] \/ Excused(t)'
  PROVE  LogTellsState'
BY DEF LogTellsState, Excused

\* The save of a cycle.
LEMMA SaveTells ==
  ASSUME TypeInv, FileInv, NEW c \in Cycles, WriteState(c)
  PROVE  LogTellsState'
<1> DEFINE q == cycle[c]
<1>1. q.pc = "write" /\ told' = ToldAfter(c) /\ blurred' = BlurredAfter(c)
  BY DEF WriteState
<1>2. q \in CycleRecords /\ Ordered(q) /\ WatchTyped
  BY DEF TypeInv, TypeOK, CyclesTyped
<1>3. file' = q.next \/ file' = Torn
  BY DEF WriteState
<1>4. SUFFICES ASSUME file' = q.next, NEW t \in Things, q.next[t] # "unknown"
               PROVE  q.next[t] = told'[t] \/ t \in blurred'
  BY <1>3 DEF LogTellsState
<1>5. told'[t] = IF told[t] = "unknown" \/ (t \in Images /\ q.next[t] = "quiet") THEN q.next[t]
                 ELSE told[t]
  BY <1>1, <1>4 DEF ToldAfter
<1>6. CASE q.crowded
  BY <1>1, <1>4, <1>6 DEF BlurredAfter
<1>7. CASE ~q.crowded /\ told'[t] # q.next[t]
  <2>1. Trusted(q, told, blurred)
    BY <1>1, <1>7 DEF FileInv, Faithful, Alone
  <2>2. told[t] # "unknown" /\ told'[t] = told[t] /\ ~(t \in Images /\ q.next[t] = "quiet")
    BY <1>5, <1>7
  <2>3. t \notin q.said
    BY <1>7, <2>1, <2>2 DEF Trusted, Heard
  <2>4. CASE q.prev[t] = "unknown"
    BY <1>1, <1>4, <1>7, <2>4 DEF BlurredAfter
  <2>5. CASE q.prev[t] # "unknown" /\ q.prev[t] = q.next[t]
    <3>1. t \in blurred
      BY <1>7, <2>1, <2>2, <2>3, <2>5 DEF Trusted, Known
    <3> QED BY <1>1, <1>7, <2>3, <3>1 DEF BlurredAfter
  <2>6. CASE q.prev[t] # "unknown" /\ q.prev[t] # q.next[t]
    <3>1. Differs(q.prev, t, q.next[t])
      <4>1. q.next[t] \in Statuses
        BY <1>2 DEF CycleRecords
      <4> QED BY <1>4, <2>2, <2>6, <4>1 DEF Differs, Statuses
    <3>2. Seen(q) = q.said
      BY <1>1, <1>2 DEF Ordered, Seen
    <3>3. t \in blurred
      BY <1>4, <2>1, <2>3, <3>1, <3>2 DEF Trusted, Owed
    <3> QED BY <1>1, <1>7, <2>3, <3>3 DEF BlurredAfter
  <2> QED BY <2>4, <2>5, <2>6
<1> QED BY <1>6, <1>7

LEMMA FileStep ==
  ASSUME TypeInv, FileInv, [Next]_vars
  PROVE  FileInv'
<1>1. LogTellsState /\ WatchTyped /\ \A c \in Cycles : cycle[c] \in CycleRecords
  BY DEF FileInv, TypeInv, TypeOK, CyclesTyped
<1>2. CASE UNCHANGED vars
  BY <1>2 DEF FileInv, Guarded, Overlap, Faithful, LogTellsState, InFlight, vars, world, watch, lines
<1>3. ASSUME World \/ Reader PROVE LogTellsState'
  BY <1>1, <1>3 DEF World, ThingChanges, Configure, Reader, Poll, MarkAllRead, MarkAllReadNow,
                    SaveCursor, Clicks, watch, lines, LogTellsState, InFlight
<1>4. ASSUME Restart PROVE LogTellsState'
  <2>1. \A c \in InFlight : cycle[c].said \subseteq blurred'
    BY <1>4 DEF Restart, InFlight
  <2>2. file' = file /\ told' = told /\ blurred \subseteq blurred'
    BY <1>4 DEF Restart
  <2> QED BY <1>1, <2>1, <2>2, FileStands
<1>5. ASSUME NEW c \in Cycles, StartWatchdog(c) \/ StartGitops(c) PROVE LogTellsState'
  <2>1. \A d \in InFlight : cycle'[d].pc = cycle[d].pc /\ cycle'[d].said = cycle[d].said
    <3>1. CASE StartWatchdog(c)
      BY <3>1, GoesMeans DEF StartWatchdog, InFlight
    <3>2. CASE StartGitops(c)
      BY <1>1, <3>2 DEF StartGitops, InFlight, CycleRecords
    <3> QED BY <1>5, <3>1, <3>2
  <2>2. file' = file /\ told' = told /\ blurred' = blurred
    BY <1>5 DEF StartWatchdog, StartGitops, lines
  <2>3. \A d \in InFlight : d \in InFlight'
    BY <2>1 DEF InFlight
  <2> QED BY <1>1, <2>1, <2>2, <2>3, FileStands
<1>6. ASSUME NEW c \in Cycles, Step(c) \/ Fault(c) PROVE LogTellsState'
  <2> DEFINE q == cycle[c]
  <2>1. /\ c \in InFlight
        /\ GoesOn(q, cycle'[c]) \/ cycle'[c] = NoCycle
        /\ \A d \in InFlight \ {c} : d \in InFlight' /\ cycle'[d].said = cycle[d].said
    BY <1>6, OthersStand DEF InFlight, Stand
  <2>2. ASSUME cycle'[c] # NoCycle, file' = file, blurred \subseteq blurred',
               \A t \in Things : told'[t] = told[t] \/ t \in cycle'[c].said
        PROVE  LogTellsState'
    <3>1. c \in InFlight' /\ q.said \subseteq cycle'[c].said
      BY <2>1, <2>2 DEF GoesOn, InFlight
    <3> QED BY <1>1, <2>1, <2>2, <3>1, FileStands DEF Excused
  <2>3. ASSUME file' = file, told' = told, q.said \subseteq blurred', blurred \subseteq blurred'
        PROVE  LogTellsState'
    BY <1>1, <2>1, <2>3, FileStands
  <2>4. CASE LoadState(c) \/ Look(c) \/ BuildChecks(c) \/ (\E i \in Integrations : Probe(c, i))
               \/ Stamp(c) \/ Hang(c)
    <3>1. file' = file /\ told' = told /\ blurred' = blurred
      BY <2>4 DEF LoadState, Look, BuildChecks, Probe, Stamp, Hang, lines
    <3>2. cycle'[c].pc # "idle"
      BY <2>4, ProceedsStands DEF Proceeds, GoesOn
    <3> QED BY <2>2, <3>1, <3>2 DEF NoCycle
  <2>5. CASE AppendEvent(c)
    <3>1. cycle'[c] # NoCycle /\ q.on \in Things /\ told \in [Things -> Statuses]
      BY <1>1, <2>5, GoesMeans, RecordedNext DEF AppendEvent, NoCycle, CycleRecords, WatchTyped
    <3>2. file' = file
      BY <2>5 DEF AppendEvent
    <3>3. \/ told' = told /\ blurred' = blurred \cup {q.on}
          \/ /\ told' = [told EXCEPT ![q.on] = q.next[q.on]] /\ blurred' = blurred
             /\ q.on \in cycle'[c].said
      <4>1. [Recorded(c) EXCEPT !.said = @ \cup {q.on}].said = q.said \cup {q.on}
        BY RecordedNext
      <4>2. \/ told' = told /\ blurred' = blurred \cup {q.on}
            \/ /\ told' = [told EXCEPT ![q.on] = q.next[q.on]] /\ blurred' = blurred
               /\ Goes(c, [Recorded(c) EXCEPT !.said = @ \cup {q.on}])
        BY <2>5 DEF AppendEvent
      <4> QED BY <4>1, <4>2, GoesMeans
    <3> QED BY <2>2, <3>1, <3>2, <3>3
  <2>6. CASE OpenState(c)
    BY <2>6 DEF OpenState, LogTellsState
  <2>7. CASE WriteState(c)
    BY <2>7, SaveTells
  <2>8. CASE AppendFails(c)
    <3>1. cycle'[c] # NoCycle
      BY <2>8, GoesMeans, RecordedNext DEF AppendFails, NoCycle
    <3> QED BY <2>2, <2>8, <3>1 DEF AppendFails, lines
  <2>9. CASE SaveFails(c) \/ Abandon(c)
    <3>1. file' = file /\ told' = told /\ blurred' = blurred \cup q.said
      BY <2>9 DEF SaveFails, Abandon, lines
    <3> QED BY <2>3, <3>1
  <2> QED BY <1>6, <2>4, <2>5, <2>6, <2>7, <2>8, <2>9 DEF Step, Fault
<1>7. ASSUME Next PROVE FileInv'
  <2>1. LogTellsState'
    BY <1>3, <1>4, <1>5, <1>6, <1>7 DEF Next, Start
  <2> QED BY <1>7, <2>1, GuardStep, FaithfulStep DEF FileInv
<1> QED BY <1>2, <1>7

\* watchdog.ts:11-13, gitopsReconciler.ts:12-14: what the log last said of a
\* thing is what its watcher saved, whatever fails, restarts or overlaps, but
\* for what a cycle in flight has just told; until the cycle that told it is
\* known to have lost its save or its event, or to have overlapped another.
THEOREM LogAgreesWithFile == Spec => []LogTellsState
<1>1. Init => FileInv
  <2>1. SUFFICES ASSUME Init PROVE FileInv
    OBVIOUS
  <2>2. InFlight = {} /\ file = Empty /\ \A c \in Cycles : cycle[c].pc = "idle"
    BY <2>1 DEF Init, InFlight, NoCycle
  <2> QED BY <2>2 DEF FileInv, Guarded, Overlap, Faithful, Alone, LogTellsState
<1>2. TypeInv /\ FileInv /\ [Next]_vars => FileInv'
  BY FileStep
<1>3. FileInv => LogTellsState
  BY DEF FileInv
<1> QED BY <1>1, <1>2, <1>3, TypeInvHolds, PTL DEF Spec
=============================================================================
