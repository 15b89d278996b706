----------------------------- MODULE ScansProofs -----------------------------
(***************************************************************************)
(* Proofs about Scans, for every value of its constants: the type          *)
(* invariant, the bound of the pool, and that a scan of the scheduler only *)
(* runs beside a scan its cycle could not see.                             *)
(*                                                                         *)
(* A scan only moves forward: unused, appending, scanning, ended.  Most of *)
(* what follows holds because of that, and because what a cycle read in    *)
(* the log was launched by then.                                           *)
(***************************************************************************)
EXTENDS Scans, FiniteSetTheorems, TLAPS

\* What is in progress and was not given up is followed by a worker, and the
\* workers are at most Limit.
PoolInv ==
  /\ IsFiniteSet(awaited) /\ Cardinality(awaited) <= Limit
  /\ \A s \in automatic : (Started(s) \/ Live(s)) /\ s \notin givenUp => s \in awaited

\* Scans that are over, or at least whose process is.
Over(s) == phase[s] \in {"done"} \cup Outcomes

\* What the cycle read was launched, and is over if its pair is due.
ReadInv ==
  \A r \in read : /\ phase[r] \notin {"unused", "appending"}
                  /\ target[r] \in due => Over(r)

\* So it is for the scans that the cycle started.
SawInv ==
  \A s \in Ids : \A r \in saw[s] :
    /\ phase[r] \notin {"unused", "appending"}
    /\ s \in automatic /\ target[r] = target[s] => Over(r)

OverlapInv == ReadInv /\ SawInv

-----------------------------------------------------------------------------
(* Types.                                                                  *)

\* What Begin does when it is well typed: one unused scan becomes a started one.
LEMMA BeginTyped ==
  ASSUME ScansTyped, LogFollows, NEW p \in Pairs, Begin(p)
  PROVE  /\ used + 1 \in Ids /\ used' = used + 1 /\ used' \in 0 .. MaxScans
         /\ phase[used + 1] = "unused" /\ logged[used + 1] = "none"
         /\ phase' = [phase EXCEPT ![used + 1] = "appending"]
         /\ phase' \in [Ids -> {"unused", "appending", "scanning", "done"} \cup Outcomes]
         /\ target' \in [Ids -> Pairs \cup {NoPair}]
         /\ fresh' \subseteq Ids
         /\ logged' = logged
<1>1. used + 1 \in Ids /\ used + 1 > used /\ used + 1 \in 0 .. MaxScans
  BY BoundsAssumption DEF ScansTyped, Begin, Ids
<1>2. QED BY <1>1 DEF ScansTyped, LogFollows, Begin

\* The scans of the scheduler are among those that were started.
LEMMA AutomaticStarted ==
  ASSUME ScansTyped
  PROVE  automatic \subseteq Ids /\ used + 1 \notin automatic
<1>1. used \in Nat /\ used <= MaxScans BY BoundsAssumption DEF ScansTyped
<1>2. 1 .. used \subseteq 1 .. MaxScans /\ used + 1 \notin 1 .. used BY <1>1, BoundsAssumption
<1>3. QED BY <1>2 DEF ScansTyped, Ids

\* The steps of the scheduler that start no scan, and those of the world, leave
\* the scans alone.
LEMMA StepKinds ==
  ASSUME Next
  PROVE  \/ UNCHANGED scanVars
         \/ \E p \in Pairs : StartManual(p) \/ Take(p)
         \/ \E s \in Ids : Scan(s)
         \/ Crash
<1>1. CycleStarts \/ ListImages \/ ListFails \/ ReadLog \/ ReadFails \/ CycleEnds => UNCHANGED scanVars
  BY DEF CycleStarts, ListImages, ListFails, ReadLog, ReadFails, CycleEnds
<1>2. ASSUME NEW s \in Ids, Poll(s) \/ NotifyFails(s) \/ GiveUp(s) PROVE UNCHANGED scanVars
  BY <1>2 DEF Poll, NotifyFails, GiveUp
<1>3. ASSUME NEW i \in Images, DeploymentChanges(i) PROVE UNCHANGED scanVars
  BY <1>3 DEF DeploymentChanges
<1>4. QED BY <1>1, <1>2, <1>3 DEF Next, Scheduler

LEMMA ScansStayTyped ==
  ASSUME TypeOK, Next
  PROVE  ScansTyped'
<1>1. ScansTyped /\ LogFollows /\ CycleTyped BY DEF TypeOK
<1>2. CASE UNCHANGED scanVars BY <1>1, <1>2 DEF ScansTyped, scanVars
<1>3. ASSUME NEW p \in Pairs, StartManual(p) PROVE ScansTyped'
  <2>1. Begin(p) BY <1>3 DEF StartManual
  <2>2. automatic' \subseteq 1 .. used' BY <1>1, <1>3, <2>1, BeginTyped DEF ScansTyped, StartManual
  <2>3. QED BY <1>1, <1>3, <2>1, <2>2, BeginTyped DEF ScansTyped, StartManual
<1>4. ASSUME NEW p \in Pairs, Take(p) PROVE ScansTyped'
  <2>1. Begin(p) BY <1>4 DEF Take
  <2>2. automatic' \subseteq 1 .. used' BY <1>1, <1>4, <2>1, BeginTyped DEF ScansTyped, Take
  <2>3. saw' \in [Ids -> SUBSET Ids] BY <1>1, <1>4 DEF ScansTyped, CycleTyped, Take
  <2>4. QED BY <1>1, <2>1, <2>2, <2>3, BeginTyped DEF ScansTyped
<1>5. ASSUME NEW s \in Ids, Launch(s) \/ LaunchUnlogged(s) PROVE ScansTyped'
  BY <1>1, <1>5 DEF ScansTyped, Launch, LaunchUnlogged
<1>6. ASSUME NEW s \in Ids, NEW outcome \in Outcomes, Exit(s, outcome) PROVE ScansTyped'
  BY <1>1, <1>6 DEF ScansTyped, Exit
<1>7. ASSUME NEW s \in Ids, Record(s) \/ RecordFails(s) PROVE ScansTyped'
  BY <1>1, <1>7 DEF ScansTyped, Record, RecordFails
<1>8. ASSUME NEW s \in Ids, Age(s) PROVE ScansTyped'
  BY <1>1, <1>8 DEF ScansTyped, Age
<1>9. CASE Crash
  <2>1. PICK written \in SUBSET {s \in Ids : phase[s] \in {"appending"} \cup Outcomes} :
          logged' = [s \in Ids |-> IF s \notin written THEN logged[s]
                                   ELSE IF Started(s) THEN "running" ELSE phase[s]]
    BY <1>9 DEF Crash
  <2>2. logged' \in [Ids -> {"none", "running"} \cup Outcomes]
    BY <1>1, <2>1 DEF ScansTyped, Started
  <2>3. phase' \in [Ids -> {"unused", "appending", "scanning", "done"} \cup Outcomes]
    BY <1>9 DEF Crash
  <2>4. QED BY <1>1, <1>9, <2>2, <2>3 DEF ScansTyped, Crash
<1>10. QED
  BY <1>2, <1>3, <1>4, <1>5, <1>6, <1>7, <1>8, <1>9, StepKinds DEF Scan

LEMMA LogStillFollows ==
  ASSUME TypeOK, Next
  PROVE  LogFollows'
<1>1. ScansTyped /\ LogFollows BY DEF TypeOK
<1>2. CASE UNCHANGED scanVars BY <1>1, <1>2 DEF LogFollows, scanVars
<1>3. ASSUME NEW p \in Pairs, Begin(p) PROVE LogFollows'
  <2>1. \A s \in Ids : s > used + 1 <=> s > used /\ s # used + 1
    BY <1>1 DEF Ids, ScansTyped
  <2>2. QED BY <1>1, <1>3, <2>1, BeginTyped DEF LogFollows, ScansTyped, Outcomes, Successes
<1>4. ASSUME NEW s \in Ids, Launch(s) \/ LaunchUnlogged(s) PROVE LogFollows'
  BY <1>1, <1>4 DEF LogFollows, ScansTyped, Launch, LaunchUnlogged, Started, Outcomes, Successes
<1>5. ASSUME NEW s \in Ids, NEW outcome \in Outcomes, Exit(s, outcome) PROVE LogFollows'
  BY <1>1, <1>5 DEF LogFollows, ScansTyped, Exit, Live, Outcomes, Successes
<1>6. ASSUME NEW s \in Ids, Record(s) \/ RecordFails(s) PROVE LogFollows'
  BY <1>1, <1>6 DEF LogFollows, ScansTyped, Record, RecordFails, Outcomes, Successes
<1>7. ASSUME NEW s \in Ids, Age(s) PROVE LogFollows'
  BY <1>1, <1>7 DEF LogFollows, Age
<1>8. CASE Crash
  <2>1. PICK written \in SUBSET {s \in Ids : phase[s] \in {"appending"} \cup Outcomes} :
          logged' = [s \in Ids |-> IF s \notin written THEN logged[s]
                                   ELSE IF Started(s) THEN "running" ELSE phase[s]]
    BY <1>8 DEF Crash
  <2>2. \A s \in Ids : phase'[s] = IF phase[s] = "unused" THEN "unused" ELSE "done"
    BY <1>8 DEF Crash
  <2>3. \A s \in Ids : phase[s] = "unused" => logged'[s] = logged[s]
    BY <2>1 DEF Outcomes, Successes
  <2>4. used' = used BY <1>8 DEF Crash
  <2>5. QED BY <1>1, <2>2, <2>3, <2>4 DEF LogFollows, Outcomes, Successes
<1>9. ASSUME NEW p \in Pairs, StartManual(p) \/ Take(p) PROVE Begin(p)
  BY <1>9 DEF StartManual, Take
<1>10. QED
  BY <1>2, <1>3, <1>4, <1>5, <1>6, <1>7, <1>8, <1>9, StepKinds DEF Scan

LEMMA CycleStaysTyped ==
  ASSUME TypeOK, Next
  PROVE  CycleTyped'
<1>1. CycleTyped /\ RestTyped /\ ScansTyped BY DEF TypeOK
<1>2. CASE UNCHANGED <<cycleVars, automatic>> BY <1>1, <1>2 DEF CycleTyped, cycleVars
<1>3. CASE CycleStarts \/ CycleEnds BY <1>1, <1>3 DEF CycleTyped, CycleStarts, CycleEnds, scanVars
<1>4. CASE ListImages \/ ListFails
  BY <1>1, <1>4 DEF CycleTyped, RestTyped, ListImages, ListFails, scanVars
<1>5. CASE ReadLog \/ ReadFails
  <2>1. images \X Scanners \subseteq Pairs BY <1>1 DEF CycleTyped, Pairs
  <2>2. due' \subseteq Pairs /\ read' \subseteq Ids BY <1>5, <2>1 DEF ReadLog, ReadFails
  <2>3. QED BY <1>1, <1>5, <2>2 DEF CycleTyped, ReadLog, ReadFails, scanVars
<1>6. ASSUME NEW p \in Pairs, Take(p) PROVE CycleTyped'
  BY <1>1, <1>6 DEF CycleTyped, Take
<1>7. ASSUME NEW s \in Ids, Poll(s) \/ NotifyFails(s) \/ GiveUp(s) PROVE CycleTyped'
  BY <1>1, <1>7 DEF CycleTyped, Poll, NotifyFails, GiveUp, scanVars
<1>8. CASE Crash BY <1>1, <1>8 DEF CycleTyped, Crash
<1>9. ASSUME NEW p \in Pairs, StartManual(p) PROVE UNCHANGED <<cycleVars, automatic>>
  BY <1>9 DEF StartManual
<1>10. ASSUME NEW s \in Ids, Scan(s) PROVE UNCHANGED <<cycleVars, automatic>>
  BY <1>10 DEF Scan, Launch, LaunchUnlogged, Exit, Record, RecordFails, Age
<1>11. ASSUME NEW i \in Images, DeploymentChanges(i) PROVE UNCHANGED <<cycleVars, automatic>>
  BY <1>11 DEF DeploymentChanges, scanVars
<1>12. QED
  BY <1>2, <1>3, <1>4, <1>5, <1>6, <1>7, <1>8, <1>9, <1>10, <1>11 DEF Next, Scheduler

\* The counters of failures.
LEMMA FaultCounted ==
  ASSUME RestTyped, Fault, UNCHANGED crashes
  PROVE  faults' \in Nat /\ crashes' \in Nat /\ faults' + crashes' <= MaxFailures
  BY BoundsAssumption DEF RestTyped, Fault

LEMMA RestStaysTyped ==
  ASSUME TypeOK, Next
  PROVE  RestTyped'
<1>1. RestTyped /\ CycleTyped BY DEF TypeOK
<1>2. CASE UNCHANGED <<deployed, automatic, outputVars, boundVars>>
  BY <1>1, <1>2 DEF RestTyped, outputVars, boundVars
<1>3. CASE CycleStarts \/ ListImages \/ ReadLog \/ CycleEnds
  BY <1>2, <1>3 DEF CycleStarts, ListImages, ReadLog, CycleEnds, scanVars
<1>4. CASE ListFails \/ ReadFails
  BY <1>1, <1>4, FaultCounted DEF RestTyped, ListFails, ReadFails, scanVars, outputVars
<1>5. ASSUME NEW p \in Pairs, Take(p) PROVE RestTyped'
  BY <1>1, <1>5 DEF RestTyped, Take, outputVars, boundVars
<1>6. ASSUME NEW s \in Ids, Poll(s) \/ NotifyFails(s) \/ GiveUp(s) PROVE RestTyped'
  <2>1. s \in automatic /\ UNCHANGED <<deployed, automatic>>
    BY <1>1, <1>6 DEF CycleTyped, Poll, NotifyFails, GiveUp, scanVars
  <2>2. notified' \subseteq automatic' /\ givenUp' \subseteq automatic' /\ unheard' \subseteq automatic'
    BY <1>1, <1>6, <2>1 DEF RestTyped, Poll, NotifyFails, GiveUp
  <2>3. UNCHANGED <<manual, changes, crashes>> /\ (UNCHANGED faults \/ Fault)
    BY <1>6 DEF Poll, NotifyFails, GiveUp, boundVars
  <2>4. faults' \in Nat /\ crashes' \in Nat /\ faults' + crashes' <= MaxFailures
    BY <1>1, <2>3, FaultCounted DEF RestTyped
  <2>5. QED BY <1>1, <2>1, <2>2, <2>3, <2>4 DEF RestTyped
<1>7. ASSUME NEW s \in Ids, NEW o \in Outcomes, Launch(s) \/ Exit(s, o) \/ Record(s) \/ Age(s)
      PROVE  RestTyped'
  BY <1>2, <1>7 DEF Launch, Exit, Record, Age
<1>8. ASSUME NEW s \in Ids, LaunchUnlogged(s) \/ RecordFails(s) PROVE RestTyped'
  BY <1>1, <1>8, FaultCounted DEF RestTyped, LaunchUnlogged, RecordFails, outputVars
<1>9. ASSUME NEW p \in Pairs, StartManual(p) PROVE RestTyped'
  BY <1>1, <1>9, BoundsAssumption DEF RestTyped, StartManual, outputVars
<1>10. ASSUME NEW i \in Images, DeploymentChanges(i) PROVE RestTyped'
  BY <1>1, <1>10, BoundsAssumption DEF RestTyped, DeploymentChanges, scanVars, outputVars
<1>11. CASE Crash BY <1>1, <1>11, BoundsAssumption DEF RestTyped, Crash, outputVars
<1>12. "failed" \in Outcomes BY DEF Outcomes
<1>13. QED
  BY <1>3, <1>4, <1>5, <1>6, <1>7, <1>8, <1>9, <1>10, <1>11, <1>12 DEF Next, Scheduler, Scan

\* The type invariant of the specification, with what the log may say of a
\* scan in progress.
THEOREM TypeCorrect == Spec => []TypeOK
<1>1. Init => TypeOK
  <2>1. SUFFICES ASSUME Init PROVE TypeOK OBVIOUS
  <2>2. ScansTyped
    BY <2>1, BoundsAssumption DEF Init, ScansTyped
  <2>3. CycleTyped
    BY <2>1 DEF Init, CycleTyped
  <2>4. RestTyped
    BY <2>1, BoundsAssumption DEF Init, RestTyped
  <2>5. LogFollows
    BY <2>1 DEF Init, LogFollows, Ids, Outcomes, Successes
  <2>6. QED BY <2>2, <2>3, <2>4, <2>5 DEF TypeOK
<1>2. TypeOK /\ [Next]_vars => TypeOK'
  <2>1. ASSUME TypeOK, Next PROVE TypeOK'
    BY <2>1, ScansStayTyped, CycleStaysTyped, RestStaysTyped, LogStillFollows DEF TypeOK
  <2>2. ASSUME TypeOK, UNCHANGED vars PROVE TypeOK'
    BY <2>2 DEF TypeOK, ScansTyped, CycleTyped, RestTyped, LogFollows,
                vars, scanVars, cycleVars, outputVars, boundVars
  <2>3. QED BY <2>1, <2>2
<1>3. QED BY <1>1, <1>2, PTL DEF Spec

-----------------------------------------------------------------------------
(* The pool.                                                               *)

\* Where no scan of the scheduler starts and the workers stay, the pool is kept.
LEMMA PoolKept ==
  ASSUME PoolInv, UNCHANGED <<awaited, automatic, givenUp>>,
         \A s \in automatic : Started(s)' \/ Live(s)' => Started(s) \/ Live(s)
  PROVE  PoolInv'
  BY DEF PoolInv

\* A worker that leaves a scan given up, or over, keeps the pool in order.
LEMMA WorkerLeaves ==
  ASSUME PoolInv, NEW s \in Ids,
         awaited' = awaited \ {s}, UNCHANGED <<automatic, phase>>, givenUp \subseteq givenUp',
         Started(s) \/ Live(s) => s \in givenUp'
  PROVE  PoolInv'
<1>1. IsFiniteSet(awaited') /\ Cardinality(awaited') <= Limit
  <2>1. IsFiniteSet(awaited) /\ awaited' \in SUBSET awaited BY DEF PoolInv
  <2>2. IsFiniteSet(awaited') /\ Cardinality(awaited') <= Cardinality(awaited)
    BY <2>1, FS_Subset
  <2>3. Cardinality(awaited) \in Nat /\ Cardinality(awaited') \in Nat
    BY <2>1, <2>2, FS_CardinalityType
  <2>4. QED BY <2>2, <2>3, BoundsAssumption DEF PoolInv
<1>2. QED BY <1>1 DEF PoolInv, Started, Live

LEMMA PoolStays ==
  ASSUME TypeOK, PoolInv, Next
  PROVE  PoolInv'
<1>1. ScansTyped /\ LogFollows BY DEF TypeOK
<1>2. CASE UNCHANGED <<awaited, automatic, givenUp, phase>>
  BY <1>2, PoolKept DEF Started, Live
<1>3. ASSUME NEW p \in Pairs, StartManual(p) PROVE PoolInv'
  <2>1. Begin(p) /\ UNCHANGED <<awaited, automatic, givenUp>>
    BY <1>3 DEF StartManual, cycleVars, outputVars
  <2>2. \A s \in automatic : s \in Ids /\ s # used + 1
    BY <1>1, AutomaticStarted
  <2>3. \A s \in automatic : phase'[s] = phase[s]
    BY <1>1, <2>1, <2>2, BeginTyped DEF ScansTyped
  <2>4. QED BY <2>1, <2>3, PoolKept DEF Started, Live
<1>4. ASSUME NEW p \in Pairs, Take(p) PROVE PoolInv'
  <2>1. Begin(p) /\ UNCHANGED givenUp /\ Cardinality(awaited) < Limit
        /\ awaited' = awaited \cup {used + 1} /\ automatic' = automatic \cup {used + 1}
    BY <1>4 DEF Take, outputVars
  <2>2. IsFiniteSet(awaited') /\ Cardinality(awaited') <= Cardinality(awaited) + 1
    BY <2>1, FS_AddElement, FS_CardinalityType DEF PoolInv
  <2>3. Cardinality(awaited) \in Nat /\ Cardinality(awaited') \in Nat
    BY <2>2, FS_CardinalityType DEF PoolInv
  <2>4. \A s \in automatic : s \in Ids /\ s # used + 1
    BY <1>1, AutomaticStarted
  <2>5. \A s \in automatic : phase'[s] = phase[s]
    BY <1>1, <2>1, <2>4, BeginTyped DEF ScansTyped
  <2>6. Cardinality(awaited') <= Limit
    BY <2>1, <2>2, <2>3, BoundsAssumption
  <2>7. QED BY <2>1, <2>2, <2>5, <2>6 DEF PoolInv, Started, Live
<1>5. ASSUME NEW s \in Ids, Poll(s) PROVE PoolInv'
  <2>1. Started(s) \/ Live(s) => s \in givenUp'
    BY <1>1, <1>5 DEF Poll, Launched, Started, Live, LogFollows
  <2>2. QED BY <1>5, <2>1, WorkerLeaves DEF Poll, scanVars
<1>6. ASSUME NEW s \in Ids, GiveUp(s) PROVE PoolInv'
  BY <1>6, WorkerLeaves DEF GiveUp, scanVars
<1>12. ASSUME NEW s \in Ids, NotifyFails(s) PROVE PoolInv'
  <2>1. ~(Started(s) \/ Live(s))
    BY <1>1, <1>12 DEF NotifyFails, Started, Live, LogFollows
  <2>2. QED BY <1>12, <2>1, WorkerLeaves DEF NotifyFails, scanVars
<1>7. ASSUME NEW s \in Ids, Scan(s) PROVE PoolInv'
  <2>1. UNCHANGED <<awaited, automatic, givenUp>>
    BY <1>7 DEF Scan, Launch, LaunchUnlogged, Exit, Record, RecordFails, Age, cycleVars, outputVars
  <2>2. \A r \in Ids : phase'[r] \in {"appending", "scanning"} => phase[r] \in {"appending", "scanning"}
    BY <1>1, <1>7 DEF Scan, Launch, LaunchUnlogged, Exit, Record, RecordFails, Age,
                      ScansTyped, Started, Live, Outcomes, Successes
  <2>3. automatic \subseteq Ids BY <1>1, AutomaticStarted
  <2>4. QED BY <2>1, <2>2, <2>3, PoolKept DEF Started, Live
<1>8. CASE Crash
  <2>1. awaited' = {} /\ UNCHANGED <<automatic, givenUp>> BY <1>8 DEF Crash, outputVars
  <2>2. \A s \in Ids : phase'[s] \in {"unused", "done"} BY <1>8 DEF Crash
  <2>3. automatic \subseteq Ids BY <1>1, AutomaticStarted
  <2>4. QED BY <2>1, <2>2, <2>3, FS_EmptySet, BoundsAssumption DEF PoolInv, Started, Live
<1>9. CASE CycleStarts \/ ListImages \/ ListFails \/ ReadLog \/ ReadFails \/ CycleEnds
  BY <1>2, <1>9 DEF CycleStarts, ListImages, ListFails, ReadLog, ReadFails, CycleEnds,
                    scanVars, outputVars
<1>10. ASSUME NEW i \in Images, DeploymentChanges(i) PROVE PoolInv'
  BY <1>2, <1>10 DEF DeploymentChanges, scanVars, cycleVars, outputVars
<1>11. QED
  BY <1>3, <1>4, <1>5, <1>6, <1>7, <1>8, <1>9, <1>10, <1>12 DEF Next, Scheduler

\* scanScheduler.ts:29-34: the scheduler never has more than Limit scans in
\* progress, those it gave up excepted: each is followed by a worker.
THEOREM PoolHolds == Spec => []PoolBounded
<1>1. Init => PoolInv
  BY FS_EmptySet, BoundsAssumption DEF Init, PoolInv
<1>2. TypeOK /\ PoolInv /\ [Next]_vars => PoolInv'
  <2>1. ASSUME PoolInv, UNCHANGED vars PROVE PoolInv'
    BY <2>1 DEF PoolInv, Started, Live, vars, scanVars, cycleVars, outputVars
  <2>2. QED BY <2>1, PoolStays
<1>3. PoolInv => PoolBounded
  <2>1. SUFFICES ASSUME PoolInv PROVE PoolBounded OBVIOUS
  <2>2. DEFINE followed == {s \in automatic : (Started(s) \/ Live(s)) /\ s \notin givenUp}
  <2>3. IsFiniteSet(awaited) /\ followed \in SUBSET awaited BY <2>1 DEF PoolInv
  <2>4. IsFiniteSet(followed) /\ Cardinality(followed) <= Cardinality(awaited)
    BY ONLY <2>3, FS_Subset
  <2>5. Cardinality(followed) \in Nat /\ Cardinality(awaited) \in Nat
    BY ONLY <2>3, <2>4, FS_CardinalityType
  <2>6. Cardinality(followed) <= Limit
    BY <2>1, <2>4, <2>5, BoundsAssumption DEF PoolInv
  <2>7. QED BY <2>6 DEF PoolBounded
<1>4. QED BY <1>1, <1>2, <1>3, TypeCorrect, PTL DEF Spec

-----------------------------------------------------------------------------
(* Scans that run side by side.                                            *)

\* Forward is the only way a scan that was launched goes.
LEMMA LaunchedStays ==
  ASSUME TypeOK, Next, NEW r \in Ids
  PROVE  /\ phase[r] \notin {"unused", "appending"} => /\ phase'[r] \notin {"unused", "appending"}
                                                       /\ target'[r] = target[r]
         /\ Over(r) => Over(r)'
<1>1. ScansTyped /\ LogFollows BY DEF TypeOK
<1>2. CASE UNCHANGED scanVars BY <1>2 DEF scanVars, Over
<1>3. ASSUME NEW p \in Pairs, Begin(p)
      PROVE  phase[r] # "unused" => phase'[r] = phase[r] /\ target'[r] = target[r]
  BY <1>1, <1>3, BeginTyped DEF ScansTyped, Begin
<1>4. ASSUME NEW p \in Pairs, StartManual(p) \/ Take(p) PROVE Begin(p)
  BY <1>4 DEF StartManual, Take
<1>5. ASSUME NEW s \in Ids, Scan(s)
      PROVE  /\ target'[r] = target[r]
             /\ \/ phase'[r] = phase[r]
                \/ phase'[r] = "scanning" /\ phase[r] = "appending"
                \/ phase'[r] \in {"done"} \cup Outcomes
  <2>1. CASE Launch(s) \/ LaunchUnlogged(s)
    BY <1>1, <2>1 DEF Launch, LaunchUnlogged, ScansTyped, Started
  <2>2. CASE \E outcome \in Outcomes : Exit(s, outcome) BY <1>1, <2>2 DEF Exit, ScansTyped
  <2>3. CASE Record(s) \/ RecordFails(s) BY <1>1, <2>3 DEF Record, RecordFails, ScansTyped
  <2>4. CASE Age(s) BY <2>4 DEF Age
  <2>5. QED BY <1>5, <2>1, <2>2, <2>3, <2>4 DEF Scan
<1>6. CASE Crash
  BY <1>1, <1>6 DEF Crash, Over, Outcomes, Successes
<1>7. ASSUME NEW s \in Ids, Scan(s)
      PROVE  /\ phase[r] \notin {"unused", "appending"} => /\ phase'[r] \notin {"unused", "appending"}
                                                           /\ target'[r] = target[r]
             /\ Over(r) => Over(r)'
  BY <1>5, <1>7 DEF Over, Outcomes, Successes
<1>8. ASSUME NEW p \in Pairs, StartManual(p) \/ Take(p)
      PROVE  /\ phase[r] \notin {"unused", "appending"} => /\ phase'[r] \notin {"unused", "appending"}
                                                           /\ target'[r] = target[r]
             /\ Over(r) => Over(r)'
  BY <1>3, <1>4, <1>8 DEF Over, Outcomes, Successes
<1>9. QED BY <1>2, <1>6, <1>7, <1>8, StepKinds

LEMMA ReadStays ==
  ASSUME TypeOK, ReadInv, Next
  PROVE  ReadInv'
<1>1. ScansTyped /\ LogFollows /\ CycleTyped BY DEF TypeOK
<1>2. ASSUME read' \subseteq read, due' \subseteq due PROVE ReadInv'
  BY <1>1, <1>2, LaunchedStays DEF ReadInv, CycleTyped, Over
<1>3. CASE ReadLog
  <2>1. read' = {s \in Ids : logged[s] # "none"} /\ due' = {p \in images \X Scanners : IsDue(p)}
        /\ UNCHANGED <<phase, target, logged>>
    BY <1>3 DEF ReadLog, scanVars
  <2>2. ASSUME NEW r \in read' PROVE /\ phase'[r] \notin {"unused", "appending"}
                                     /\ target'[r] \in due' => Over(r)'
    <3>1. r \in Ids /\ logged[r] # "none" BY <2>1, <2>2
    <3>2. phase[r] \notin {"unused", "appending"} BY <1>1, <3>1 DEF LogFollows
    <3>3. CASE IsDue(target[r])
      <4>1. logged[r] # "running" BY <3>1, <3>3 DEF IsDue
      <4>2. Over(r) BY <1>1, <3>1, <3>2, <4>1 DEF LogFollows, ScansTyped, Over, Outcomes, Successes
      <4>3. QED BY <2>1, <3>2, <4>2 DEF Over
    <3>4. CASE ~IsDue(target[r])
      BY <2>1, <3>2, <3>4
    <3>5. QED BY <3>3, <3>4
  <2>3. QED BY <2>2 DEF ReadInv
<1>4. CASE ReadFails BY <1>4 DEF ReadFails, ReadInv
<1>5. ASSUME NEW p \in Pairs, StartManual(p) \/ Take(p) PROVE read' \subseteq read /\ due' \subseteq due
  BY <1>5 DEF StartManual, Take, cycleVars
<1>6. ASSUME NEW s \in Ids, Scan(s) \/ Poll(s) \/ NotifyFails(s) \/ GiveUp(s)
      PROVE  read' \subseteq read /\ due' \subseteq due
  BY <1>6 DEF Scan, Launch, LaunchUnlogged, Exit, Record, RecordFails, Age, Poll,
                    NotifyFails, GiveUp, cycleVars
<1>7. CASE Crash \/ CycleStarts \/ ListImages \/ ListFails \/ CycleEnds
  BY <1>2, <1>7 DEF Crash, CycleStarts, ListImages, ListFails, CycleEnds
<1>8. ASSUME NEW i \in Images, DeploymentChanges(i) PROVE read' \subseteq read /\ due' \subseteq due
  BY <1>8 DEF DeploymentChanges, cycleVars
<1>9. QED
  BY <1>2, <1>3, <1>4, <1>5, <1>6, <1>7, <1>8 DEF Next, Scheduler

LEMMA SawStays ==
  ASSUME TypeOK, ReadInv, SawInv, Next
  PROVE  SawInv'
<1>1. ScansTyped /\ CycleTyped /\ LogFollows BY DEF TypeOK
\* What a scan saw is launched, and keeps its target; so does the scan itself.
<1>2. ASSUME NEW s \in Ids, saw'[s] = saw[s], s \in automatic' => s \in automatic /\ target'[s] = target[s]
      PROVE  \A r \in saw'[s] : /\ phase'[r] \notin {"unused", "appending"}
                                /\ s \in automatic' /\ target'[r] = target'[s] => Over(r)'
  BY <1>1, <1>2, LaunchedStays DEF SawInv, ScansTyped
<1>3. CASE saw' = saw /\ automatic' = automatic /\ \A s \in automatic : target'[s] = target[s]
  BY <1>2, <1>3 DEF SawInv, Over
<1>4. ASSUME NEW p \in Pairs, StartManual(p) PROVE SawInv'
  <2>1. Begin(p) /\ saw' = saw /\ automatic' = automatic BY <1>4 DEF StartManual
  <2>2. \A s \in automatic : s \in Ids /\ s # used + 1 BY <1>1, AutomaticStarted
  <2>3. \A s \in automatic : target'[s] = target[s] BY <1>1, <2>1, <2>2 DEF Begin, ScansTyped
  <2>4. QED BY <1>3, <2>1, <2>3
<1>5. ASSUME NEW p \in Pairs, Take(p) PROVE SawInv'
  <2>1. Begin(p) /\ p \in due /\ saw' = [saw EXCEPT ![used + 1] = read]
        /\ automatic' = automatic \cup {used + 1}
    BY <1>5 DEF Take
  <2>2. used + 1 \in Ids /\ target'[used + 1] = p /\ phase[used + 1] = "unused"
    BY <1>1, <2>1, BeginTyped DEF Begin, ScansTyped
  <2>3. ASSUME NEW s \in Ids, s # used + 1
        PROVE  saw'[s] = saw[s] /\ target'[s] = target[s] /\ (s \in automatic' => s \in automatic)
    BY <1>1, <2>1, <2>3 DEF Begin, ScansTyped
  <2>4. ASSUME NEW r \in saw'[used + 1]
        PROVE  /\ phase'[r] \notin {"unused", "appending"}
               /\ target'[r] = target'[used + 1] => Over(r)'
    <3>1. r \in read /\ r \in Ids BY <1>1, <2>1, <2>2, <2>4 DEF ScansTyped, CycleTyped
    <3>2. phase[r] \notin {"unused", "appending"} /\ (target[r] \in due => Over(r))
      BY <3>1 DEF ReadInv
    <3>3. QED BY <2>1, <2>2, <3>1, <3>2, LaunchedStays
  <2>5. \A s \in Ids : \A r \in saw'[s] : /\ phase'[r] \notin {"unused", "appending"}
                                          /\ s \in automatic' /\ target'[r] = target'[s] => Over(r)'
    BY <1>2, <2>3, <2>4
  <2>6. QED BY <2>5 DEF SawInv, Over
<1>6. ASSUME NEW s \in Ids, Scan(s) PROVE SawInv'
  BY <1>3, <1>6 DEF Scan, Launch, LaunchUnlogged, Exit, Record, RecordFails, Age
<1>7. CASE Crash BY <1>3, <1>7 DEF Crash
<1>8. CASE UNCHANGED scanVars BY <1>3, <1>8 DEF scanVars
<1>9. QED BY <1>4, <1>5, <1>6, <1>7, <1>8, StepKinds

\* scanScheduler.ts:36-38: whatever users, cycles, failures and restarts do, a
\* scan of the scheduler runs beside another of the same image and scanner
\* only if that one was not in the log when its cycle decided.
THEOREM OverlapsAreUnseen == Spec => []OverlapUnseen
<1>1. Init => OverlapInv
  BY DEF Init, OverlapInv, ReadInv, SawInv
<1>2. TypeOK /\ OverlapInv /\ [Next]_vars => OverlapInv'
  <2>1. ASSUME OverlapInv, UNCHANGED vars PROVE OverlapInv'
    BY <2>1 DEF OverlapInv, ReadInv, SawInv, Over, vars, scanVars, cycleVars
  <2>2. QED BY <2>1, ReadStays, SawStays DEF OverlapInv
<1>3. OverlapInv => OverlapUnseen
  BY DEF OverlapInv, SawInv, OverlapUnseen, Over, Live, Outcomes, Successes
<1>4. QED BY <1>1, <1>2, <1>3, TypeCorrect, PTL DEF Spec
=============================================================================
