--------------------------- MODULE CronJobsProofs ---------------------------
(***************************************************************************)
(* Proofs about CronJobs, for every value of its constants; and, in the    *)
(* last part, about the two readers of CronExpressions, for every          *)
(* expression: when they give the same minutes, and what the validation of *)
(* one of them is worth.                                                   *)
(*                                                                         *)
(* That a job has one unfinished run rests on a stronger fact: only the    *)
(* last run of a job can be unfinished (LastActive).  That commands only   *)
(* overlap once abandoned rests on CommandsTracked, which says what the    *)
(* scheduler knows of each command alive in a container.  That a minute is *)
(* treated once rests on the order of what was treated: everything this    *)
(* life of the process fired or skipped for a job lies at or before        *)
(* treated[j], itself at or before the clock.                              *)
(***************************************************************************)
EXTENDS CronJobs, CronExpressions, TLAPS

LastActive ==
  \A r \in Runs : Active(r) => r[2] = started[r[1]] /\ run[r].life = life

Held == \A j \in Jobs : j \in executing <=> \E r \in Runs : r[1] = j /\ Active(r)

CommandsTracked ==
  \A r \in commands :
    \/ phase[r] \in {"racing", "inspecting"}
    \/ phase[r] \in {"logging", "over"} /\ outcome[r] \in GivenUp
    \/ phase[r] = "over" /\ run[r].life < life

\* A run is a success in the history, or about to be, only if its exit code
\* was read, so that its command is over.
SuccessesOver ==
  \A r \in Runs :
    /\ phase[r] \in {"none", "connecting", "racing", "inspecting"} => outcome[r] = "none"
    /\ phase[r] = "none" => r \notin commands
    /\ outcome[r] = "success" => r \notin commands
    /\ history[r] = "success" => outcome[r] = "success"

\* No run belongs to a life of the process that has not begun.
LivesPast == \A r \in Runs : phase[r] # "none" => run[r].life <= life

-----------------------------------------------------------------------------

\* A set of jobs that each have a run left start their next run, no other.
LEMMA StartTyped ==
  ASSUME TypeOK, NEW J \in SUBSET Jobs, NEW trigger \in {"manual", "scheduled"}, Start(J, trigger)
  PROVE  /\ RunsTyped' /\ RunsCounted'
         /\ executing' \subseteq Jobs /\ announcing' \subseteq Runs
<1> USE DEF Runs, Ranks
<1>1. \A j \in J : <<j, started[j] + 1>> \in Runs
  BY CountsAssumption DEF Start, TypeOK, RunsTyped
<1>2. started' \in [Jobs -> 0 .. MaxRuns]
  BY CountsAssumption DEF Start, TypeOK, RunsTyped
<1>3. run' \in [Runs -> [trigger : {"manual", "scheduled"}, minute : Nat, life : Nat]]
  BY CountsAssumption DEF Start, TypeOK, RunsTyped, RequestsTyped, HistoryTyped
<1>4. /\ phase' \in [Runs -> {"none", "connecting", "racing", "inspecting", "logging", "over"}]
      /\ outcome' \in [Runs -> {"none", "success", "failed", "unknown", "lost", "timeout"}]
  BY DEF Start, TypeOK, RunsTyped
<1>5. RunsCounted'
  <2> SUFFICES ASSUME NEW r \in Runs
               PROVE  phase'[r] = "none" <=> r[2] > started'[r[1]]
    BY DEF RunsCounted
  <2>1. r = <<r[1], r[2]>> /\ r[1] \in Jobs /\ r[2] \in Nat
    OBVIOUS
  <2>2. CASE r[1] \in J /\ r[2] = started[r[1]] + 1
    BY <2>1, <2>2 DEF Start, TypeOK, RunsTyped
  <2>3. CASE ~(r[1] \in J /\ r[2] = started[r[1]] + 1)
    <3>1. phase'[r] = phase[r]
      BY <2>1, <2>3 DEF Start
    <3>2. started[r[1]] \in Nat
      BY <2>1 DEF TypeOK, RunsTyped
    <3>3. started'[r[1]] = IF r[1] \in J THEN started[r[1]] + 1 ELSE started[r[1]]
      BY <2>1 DEF Start
    <3>4. r[2] > started[r[1]] <=> r[2] > started'[r[1]]
      BY <2>1, <2>3, <3>2, <3>3
    <3> QED
      BY <3>1, <3>4 DEF TypeOK, RunsCounted
  <2> QED
    BY <2>2, <2>3
<1>6. executing' \subseteq Jobs /\ announcing' \subseteq Runs
  BY <1>1 DEF Start, TypeOK, GuardTyped, OutsideTyped
<1> QED
  BY <1>2, <1>3, <1>4, <1>5, <1>6 DEF RunsTyped

\* What Start does, run by run.
LEMMA StartRuns ==
  ASSUME TypeOK, NEW J \in SUBSET Jobs, NEW trigger \in {"manual", "scheduled"}, Start(J, trigger),
         NEW r \in Runs
  PROVE  \/ /\ r[1] \in J /\ r[2] = started'[r[1]]
            /\ phase[r] = "none" /\ phase'[r] = "connecting"
            /\ run'[r] = [trigger |-> trigger, minute |-> clock, life |-> life]
         \/ /\ ~(r[1] \in J /\ r[2] = started'[r[1]])
            /\ phase'[r] = phase[r] /\ run'[r] = run[r]
<1>1. r = <<r[1], r[2]>> /\ r[1] \in Jobs /\ r[2] \in Nat
  BY DEF Runs, Ranks
<1>2. r[1] \in J => started'[r[1]] = started[r[1]] + 1
  BY <1>1 DEF Start
<1>3. CASE r[1] \in J /\ r[2] = started[r[1]] + 1
  BY <1>1, <1>2, <1>3 DEF Start, TypeOK, RunsTyped, RunsCounted
<1>4. CASE ~(r[1] \in J /\ r[2] = started[r[1]] + 1)
  BY <1>1, <1>2, <1>4 DEF Start
<1> QED
  BY <1>3, <1>4

-----------------------------------------------------------------------------

\* Every variable keeps its type.
LEMMA TypeStep == TypeOK /\ [Next]_vars => TypeOK'
<1> SUFFICES ASSUME TypeOK, [Next]_vars PROVE TypeOK'
  OBVIOUS
<1> USE DEF requestVars, guardVars, runVars, outsideVars
<1>1. CASE UNCHANGED vars
  BY <1>1 DEF vars, TypeOK, RequestsTyped, GuardTyped, RunsTyped, OutsideTyped, HistoryTyped, RunsCounted
<1>2. ASSUME NEW j \in Jobs, NEW s \in Schedules,
             CreateJob(j, s) \/ \E on \in BOOLEAN : UpdateJob(j, s, on)
      PROVE  TypeOK'
  <2>1. RequestsTyped'
    <3>1. RequestsTyped
      BY DEF TypeOK
    <3>2. ASSUME CreateJob(j, s) PROVE RequestsTyped'
      BY <3>1, <3>2 DEF RequestsTyped, CreateJob
    <3>3. ASSUME NEW on \in BOOLEAN, UpdateJob(j, s, on) PROVE RequestsTyped'
      BY <3>1, <3>3 DEF RequestsTyped, UpdateJob
    <3> QED
      BY <1>2, <3>2, <3>3
  <2>2. UNCHANGED <<guardVars, runVars, outsideVars, skipped, life>>
    BY <1>2 DEF CreateJob, UpdateJob
  <2> QED
    BY <2>1, <2>2 DEF TypeOK, GuardTyped, RunsTyped, OutsideTyped, HistoryTyped, RunsCounted
<1>3. ASSUME NEW j \in Jobs, DeleteJob(j) PROVE TypeOK'
  <2>1. DeleteJob(j) /\ RequestsTyped
    BY <1>3 DEF TypeOK
  <2>2. RequestsTyped'
    BY <2>1 DEF RequestsTyped, DeleteJob, Live
  <2> QED
    BY <1>3, <2>2 DEF DeleteJob, TypeOK, GuardTyped, RunsTyped, OutsideTyped, HistoryTyped, RunsCounted
<1>4. ASSUME NEW j \in Jobs, Trigger(j) PROVE TypeOK'
  <2>1. RunsTyped' /\ RunsCounted' /\ executing' \subseteq Jobs /\ announcing' \subseteq Runs
    BY <1>4, StartTyped DEF Trigger
  <2> QED
    BY <1>4, <2>1 DEF Trigger, TypeOK, RequestsTyped, GuardTyped, OutsideTyped, HistoryTyped
<1>5. CASE Tick
  <2>1. PICK J \in SUBSET Jobs, K \in SUBSET Jobs :
          /\ Start(J, "scheduled")
          /\ treated' = [j \in Jobs |-> IF j \in K THEN clock ELSE treated[j]]
          /\ skipped' = skipped \cup {<<j, clock, life>> : j \in K \ J}
          /\ UNCHANGED <<requestVars, commands, history, faults, life>>
    BY <1>5 DEF Tick
  <2>2. RunsTyped' /\ RunsCounted' /\ executing' \subseteq Jobs /\ announcing' \subseteq Runs
    BY <2>1, StartTyped
  <2>3. treated' \in [Jobs -> 0 .. Never]
    BY <2>1, CountsAssumption DEF TypeOK, RequestsTyped, GuardTyped, Never
  <2>4. skipped' \subseteq Jobs \X Nat \X Nat
    BY <2>1, CountsAssumption DEF TypeOK, RequestsTyped, HistoryTyped
  <2> QED
    BY <2>1, <2>2, <2>3, <2>4 DEF TypeOK, RequestsTyped, GuardTyped, OutsideTyped, HistoryTyped
<1>6. ASSUME NEW r \in Runs, Announced(r) PROVE TypeOK'
  <2>1. OutsideTyped'
    BY <1>6 DEF TypeOK, OutsideTyped, Announced, AppendEvent
  <2> QED
    BY <1>6, <2>1 DEF Announced, TypeOK, RequestsTyped, GuardTyped, RunsTyped, HistoryTyped, RunsCounted
<1>7. ASSUME NEW r \in Runs, NEW to \in {"racing", "inspecting", "logging"},
             \E from \in {"connecting", "racing", "inspecting"} : Advance(r, from, to),
             outcome' \in [Runs -> {"none", "success", "failed", "unknown", "lost", "timeout"}],
             commands' \subseteq Runs
      PROVE  TypeOK'
  <2>0. phase' = [phase EXCEPT ![r] = to] /\ UNCHANGED <<started, run>>
    BY <1>7 DEF Advance
  <2>1. RunsTyped'
    BY <1>7, <2>0 DEF TypeOK, RunsTyped
  <2>2. RunsCounted'
    BY <1>7 DEF TypeOK, RunsTyped, RunsCounted, Advance
  <2> QED
    BY <1>7, <2>1, <2>2 DEF Advance, TypeOK, RequestsTyped, GuardTyped, OutsideTyped, HistoryTyped
<1>8. ASSUME NEW r \in Runs,
             \/ Connected(r) \/ ConnectFails(r) \/ StreamEnds(r) \/ TimesOut(r)
             \/ \E result \in {"success", "failed", "unknown"} : Inspected(r, result)
      PROVE  TypeOK'
  <2>1. /\ outcome' \in [Runs -> {"none", "success", "failed", "unknown", "lost", "timeout"}]
        /\ commands' \subseteq Runs
    BY <1>8 DEF TypeOK, RunsTyped, OutsideTyped, Connected, ConnectFails, StreamEnds, TimesOut, Inspected
  <2> QED
    BY <1>7, <1>8, <2>1 DEF Connected, ConnectFails, StreamEnds, TimesOut, Inspected
<1>9. ASSUME NEW r \in Runs, CommandEnds(r) PROVE TypeOK'
  <2>1. OutsideTyped'
    BY <1>9 DEF TypeOK, OutsideTyped, CommandEnds
  <2> QED
    BY <1>9, <2>1 DEF CommandEnds, TypeOK, RequestsTyped, GuardTyped, RunsTyped, HistoryTyped, RunsCounted
<1>10. ASSUME NEW r \in Runs, LogOutcome(r) PROVE TypeOK'
  <2>1. OutsideTyped'
    BY <1>10 DEF TypeOK, OutsideTyped, LogOutcome, AppendEvent
  <2>2. RunsTyped'
    BY <1>10 DEF TypeOK, RunsTyped, LogOutcome
  <2>3. RunsCounted'
    BY <1>10 DEF TypeOK, RunsTyped, RunsCounted, LogOutcome
  <2> QED
    BY <1>10, <2>1, <2>2, <2>3 DEF LogOutcome, TypeOK, RequestsTyped, GuardTyped, HistoryTyped
<1>11. CASE MinutePasses
  <2>1. RequestsTyped'
    BY <1>11, CountsAssumption DEF TypeOK, RequestsTyped, MinutePasses
  <2> QED
    BY <1>11, <2>1 DEF MinutePasses, TypeOK, GuardTyped, RunsTyped, OutsideTyped, HistoryTyped, RunsCounted
<1>12. CASE Crash
  <2>1. GuardTyped' /\ OutsideTyped' /\ HistoryTyped'
    BY <1>12, CountsAssumption DEF TypeOK, GuardTyped, OutsideTyped, HistoryTyped, Never, Crash
  <2>2. RunsTyped'
    BY <1>12 DEF TypeOK, RunsTyped, Crash
  <2>3. RunsCounted'
    BY <1>12 DEF TypeOK, RunsTyped, RunsCounted, Crash
  <2> QED
    BY <1>12, <2>1, <2>2, <2>3 DEF Crash, TypeOK, RequestsTyped
<1> QED
  BY <1>1, <1>2, <1>3, <1>4, <1>5, <1>6, <1>8, <1>9, <1>10, <1>11, <1>12 DEF Next, Request, Perform, Finish

\* Every variable keeps its type, and the ranks of the runs are given in order:
\* the routes, the tick, the background work of the runs and a restart.
THEOREM TypeCorrect == Spec => []TypeOK
<1>1. Init => TypeOK
  <2> SUFFICES ASSUME Init PROVE TypeOK
    OBVIOUS
  <2>1. RequestsTyped
    BY JobsAssumption, CountsAssumption DEF Init, RequestsTyped, AnyOf
  <2>2. GuardTyped /\ OutsideTyped /\ HistoryTyped
    BY CountsAssumption DEF Init, GuardTyped, OutsideTyped, HistoryTyped, Never
  <2>3. RunsTyped
    BY CountsAssumption DEF Init, RunsTyped
  <2>4. RunsCounted
    BY CountsAssumption DEF Init, RunsCounted, Runs, Ranks
  <2> QED
    BY <2>1, <2>2, <2>3, <2>4 DEF TypeOK
<1> QED
  BY <1>1, TypeStep, PTL DEF Spec

-----------------------------------------------------------------------------
(* The steps of a run once started, seen by the guard against overlaps.    *)

\* The steps that change no run and no guard.
Aside ==
  \/ \E j \in Jobs : \/ \E s \in Schedules : CreateJob(j, s) \/ \E on \in BOOLEAN : UpdateJob(j, s, on)
                     \/ DeleteJob(j)
  \/ \E r \in Runs : Announced(r) \/ CommandEnds(r)
  \/ MinutePasses
  \/ UNCHANGED vars

\* The steps that move an unfinished run to another unfinished phase.
Middle(r) ==
  \/ Connected(r) \/ ConnectFails(r) \/ StreamEnds(r) \/ TimesOut(r)
  \/ \E result \in {"success", "failed", "unknown"} : Inspected(r, result)

\* The steps that start runs, by a user or by a tick.
Starting(J, trigger) ==
  /\ Start(J, trigger)
  /\ J \cap executing = {}
  /\ UNCHANGED <<clock, life, commands>>

LEMMA StepKinds ==
  ASSUME [Next]_vars
  PROVE  \/ Aside
         \/ \E J \in SUBSET Jobs, trigger \in {"manual", "scheduled"} : Starting(J, trigger)
         \/ \E r \in Runs : Middle(r)
         \/ \E r \in Runs : LogOutcome(r)
         \/ Crash
<1>1. ASSUME NEW j \in Jobs, Trigger(j) PROVE Starting({j}, "manual")
  BY <1>1 DEF Trigger, Starting, requestVars
<1>2. ASSUME Tick
      PROVE  \E J \in SUBSET Jobs : Starting(J, "scheduled")
  <2>1. PICK J \in SUBSET Jobs : J \cap executing = {} /\ Start(J, "scheduled")
    BY <1>2 DEF Tick
  <2> QED
    BY <1>2, <2>1 DEF Tick, Starting, requestVars
<1> QED
  BY <1>1, <1>2 DEF Next, Request, Perform, Finish, Aside, Middle

\* Only the last run of a job may be unfinished, and it holds its job.
LEMMA GuardStep ==
  ASSUME TypeOK, LastActive, Held, [Next]_vars
  PROVE  LastActive' /\ Held'
<1>1. CASE Aside
  <2>1. UNCHANGED <<executing, started, run, phase, life>>
    BY <1>1 DEF Aside, CreateJob, UpdateJob, DeleteJob, Announced, CommandEnds, MinutePasses,
                vars, requestVars, guardVars, runVars, outsideVars
  <2> QED
    BY <2>1 DEF LastActive, Held, Active
<1>2. ASSUME NEW J \in SUBSET Jobs, NEW trigger \in {"manual", "scheduled"}, Starting(J, trigger)
      PROVE  LastActive' /\ Held'
  <2>1. Start(J, trigger) /\ life' = life /\ J \cap executing = {} /\ executing' = executing \cup J
    BY <1>2 DEF Starting, Start
  <2>2. ASSUME NEW r \in Runs, Active(r)'
        PROVE  r[2] = started'[r[1]] /\ run'[r].life = life' /\ r[1] \in executing'
    <3>1. r[1] \in Jobs
      BY DEF Runs
    <3>2. CASE r[1] \in J /\ r[2] = started'[r[1]]
      BY <2>1, <3>2, StartRuns
    <3>3. CASE ~(r[1] \in J /\ r[2] = started'[r[1]])
      <4>1. Active(r) /\ run'[r] = run[r]
        BY <2>1, <2>2, <3>3, StartRuns DEF Active
      <4>2. r[1] \in executing /\ r[1] \notin J
        BY <2>1, <3>1, <4>1 DEF Held
      <4>3. started'[r[1]] = started[r[1]]
        BY <2>1, <3>1, <4>2 DEF Start
      <4> QED
        BY <2>1, <4>1, <4>2, <4>3 DEF LastActive
    <3> QED
      BY <3>2, <3>3
  <2>3. ASSUME NEW j \in executing'
        PROVE  \E r \in Runs : r[1] = j /\ Active(r)'
    <3>1. CASE j \in J
      <4>1. <<j, started'[j]>> \in Runs
        BY <2>1, <3>1, CountsAssumption DEF Start, TypeOK, RunsTyped, Runs, Ranks
      <4>2. phase'[<<j, started'[j]>>] = "connecting"
        BY <2>1, <3>1, <4>1, StartRuns
      <4> QED
        BY <4>1, <4>2 DEF Active
    <3>2. CASE j \in executing /\ j \notin J
      <4>1. PICK r \in Runs : r[1] = j /\ Active(r)
        BY <3>2 DEF Held, TypeOK, GuardTyped
      <4>2. phase'[r] = phase[r]
        BY <2>1, <3>2, <4>1, StartRuns
      <4> QED
        BY <4>1, <4>2 DEF Active
    <3> QED
      BY <2>1, <3>1, <3>2
  <2> QED
    BY <2>2, <2>3 DEF LastActive, Held
<1>3. ASSUME NEW r \in Runs, Middle(r) PROVE LastActive' /\ Held'
  <2>1. UNCHANGED <<executing, started, run, life>>
    BY <1>3 DEF Middle, Connected, ConnectFails, StreamEnds, TimesOut, Inspected, Advance, guardVars
  <2>2. \A q \in Runs : Active(q)' <=> Active(q)
    BY <1>3 DEF Middle, Connected, ConnectFails, StreamEnds, TimesOut, Inspected, Advance, Active,
                TypeOK, RunsTyped
  <2> QED
    BY <2>1, <2>2 DEF LastActive, Held
<1>4. ASSUME NEW r \in Runs, LogOutcome(r) PROVE LastActive' /\ Held'
  <2>1. UNCHANGED <<started, run, life>> /\ executing' = executing \ {r[1]} /\ Active(r)
    BY <1>4 DEF LogOutcome, Active
  <2>2. \A q \in Runs : Active(q)' <=> Active(q) /\ q # r
    BY <1>4 DEF LogOutcome, Active, TypeOK, RunsTyped
  <2>3. \A q \in Runs : Active(q) /\ q[1] = r[1] => q = r
    BY <2>1 DEF LastActive, Runs
  <2> QED
    BY <2>1, <2>2, <2>3 DEF LastActive, Held
<1>5. CASE Crash
  BY <1>5 DEF Crash, LastActive, Held, Active, TypeOK, RunsTyped
<1> QED
  BY <1>1, <1>2, <1>3, <1>4, <1>5, StepKinds

\* A job never has two unfinished runs, and is held while it has one: for any
\* jobs, any number of runs, ticks, manual triggers, edits and restarts.
THEOREM GuardHolds == Spec => []OneRunPerJob
<1>1. Init => LastActive /\ Held
  BY DEF Init, LastActive, Held, Active
<1>2. TypeOK /\ LastActive /\ Held => OneRunPerJob
  BY DEF LastActive, Held, OneRunPerJob, Runs
<1>3. TypeOK /\ LastActive /\ Held /\ [Next]_vars => LastActive' /\ Held'
  BY GuardStep
<1> QED
  BY <1>1, <1>2, <1>3, TypeCorrect, PTL DEF Spec

-----------------------------------------------------------------------------
(* The commands in the containers.                                         *)

LEMMA LivesStep ==
  ASSUME TypeOK, LivesPast, [Next]_vars
  PROVE  LivesPast'
<1> USE DEF LivesPast
<1>1. CASE Aside
  BY <1>1 DEF Aside, CreateJob, UpdateJob, DeleteJob, Announced, CommandEnds, MinutePasses, vars, runVars
<1>2. ASSUME NEW J \in SUBSET Jobs, NEW trigger \in {"manual", "scheduled"}, Starting(J, trigger)
      PROVE  LivesPast'
  <2>1. Start(J, trigger) /\ life' = life /\ life \in Nat
    BY <1>2 DEF Starting, TypeOK, HistoryTyped
  <2> QED
    BY <2>1, StartRuns
<1>3. ASSUME NEW r \in Runs, Middle(r) \/ LogOutcome(r) PROVE LivesPast'
  BY <1>3 DEF Middle, Connected, ConnectFails, StreamEnds, TimesOut, Inspected, Advance, LogOutcome,
              TypeOK, RunsTyped
<1>4. CASE Crash
  BY <1>4 DEF Crash, TypeOK, RunsTyped, HistoryTyped
<1> QED
  BY <1>1, <1>2, <1>3, <1>4, StepKinds

LEMMA CommandsStep ==
  ASSUME TypeOK, LivesPast, CommandsTracked, [Next]_vars
  PROVE  CommandsTracked'
<1> USE DEF CommandsTracked, GivenUp
<1>0. commands \subseteq Runs
  BY DEF TypeOK, OutsideTyped
<1>1. CASE Aside
  <2>1. UNCHANGED <<run, phase, outcome, life>> /\ commands' \subseteq commands
    BY <1>1 DEF Aside, CreateJob, UpdateJob, DeleteJob, Announced, CommandEnds, MinutePasses,
                vars, requestVars, runVars, outsideVars
  <2> QED
    BY <2>1
<1>2. ASSUME NEW J \in SUBSET Jobs, NEW trigger \in {"manual", "scheduled"}, Starting(J, trigger)
      PROVE  CommandsTracked'
  <2>1. Start(J, trigger) /\ UNCHANGED <<life, commands, outcome>>
    BY <1>2 DEF Starting, Start
  <2>2. \A r \in commands : phase'[r] = phase[r] /\ run'[r] = run[r]
    BY <1>0, <2>1, StartRuns
  <2> QED
    BY <2>1, <2>2
<1>3. ASSUME NEW r \in Runs, Middle(r) PROVE CommandsTracked'
  <2>1. UNCHANGED <<run, life>>
    BY <1>3 DEF Middle, Connected, ConnectFails, StreamEnds, TimesOut, Inspected, Advance
  <2>2. \A q \in Runs : q # r => phase'[q] = phase[q] /\ outcome'[q] = outcome[q]
    BY <1>3 DEF Middle, Connected, ConnectFails, StreamEnds, TimesOut, Inspected, Advance, TypeOK, RunsTyped
  <2>3. CASE Connected(r)
    BY <1>0, <2>1, <2>2, <2>3 DEF Connected, Advance, TypeOK, RunsTyped
  <2>4. CASE ConnectFails(r)
    BY <1>0, <2>1, <2>2, <2>4 DEF ConnectFails, Advance, TypeOK, RunsTyped
  <2>5. CASE StreamEnds(r)
    BY <1>0, <2>1, <2>2, <2>5 DEF StreamEnds, Advance, TypeOK, RunsTyped
  <2>6. CASE TimesOut(r)
    BY <1>0, <2>1, <2>2, <2>6 DEF TimesOut, Advance, TypeOK, RunsTyped
  <2>7. ASSUME NEW result \in {"success", "failed", "unknown"}, Inspected(r, result) PROVE CommandsTracked'
    BY <1>0, <2>1, <2>2, <2>7 DEF Inspected, Advance, TypeOK, RunsTyped
  <2> QED
    BY <1>3, <2>3, <2>4, <2>5, <2>6, <2>7 DEF Middle
<1>4. ASSUME NEW r \in Runs, LogOutcome(r) PROVE CommandsTracked'
  BY <1>0, <1>4 DEF LogOutcome, TypeOK, RunsTyped
<1>5. CASE Crash
  BY <1>0, <1>5 DEF Crash, LivesPast, TypeOK, RunsTyped, HistoryTyped
<1> QED
  BY <1>1, <1>2, <1>3, <1>4, <1>5, StepKinds

LEMMA SuccessesStep ==
  ASSUME TypeOK, SuccessesOver, [Next]_vars
  PROVE  SuccessesOver'
<1> USE DEF SuccessesOver, requestVars, guardVars, runVars, outsideVars
<1>0. /\ phase \in [Runs -> {"none", "connecting", "racing", "inspecting", "logging", "over"}]
      /\ outcome \in [Runs -> {"none", "success", "failed", "unknown", "lost", "timeout"}]
      /\ history \in [Runs -> {"absent", "running", "success", "failed"}]
  BY DEF TypeOK, RunsTyped, OutsideTyped
<1>1. CASE UNCHANGED <<phase, outcome, commands, history>>
  BY <1>1
<1>2. ASSUME NEW J \in SUBSET Jobs, NEW trigger \in {"manual", "scheduled"}, Start(J, trigger),
             UNCHANGED <<commands, history>>
      PROVE  SuccessesOver'
  <2>1. outcome' = outcome
    BY <1>2 DEF Start
  <2>2. \A r \in Runs : phase'[r] = phase[r] \/ (phase[r] = "none" /\ phase'[r] = "connecting")
    BY <1>2, StartRuns
  <2> QED
    BY <1>2, <2>1, <2>2
<1>3. ASSUME NEW r \in Runs, Announced(r) PROVE SuccessesOver'
  BY <1>0, <1>3 DEF Announced, AppendEvent
<1>4. ASSUME NEW r \in Runs,
             \/ Connected(r) \/ ConnectFails(r) \/ StreamEnds(r) \/ TimesOut(r)
             \/ \E result \in {"success", "failed", "unknown"} : Inspected(r, result)
      PROVE  SuccessesOver'
  <2>1. history' = history /\ phase[r] \in {"connecting", "racing", "inspecting"}
    BY <1>4 DEF Connected, ConnectFails, StreamEnds, TimesOut, Inspected, Advance
  <2>2. \A q \in Runs : q # r =>
          phase'[q] = phase[q] /\ outcome'[q] = outcome[q] /\ (q \in commands' <=> q \in commands)
    BY <1>0, <1>4 DEF Connected, ConnectFails, StreamEnds, TimesOut, Inspected, Advance
  <2>3. outcome[r] = "none" /\ history[r] # "success"
    BY <2>1
  <2>4. CASE Connected(r)
    BY <1>0, <2>1, <2>2, <2>3, <2>4 DEF Connected, Advance
  <2>5. CASE ConnectFails(r)
    BY <1>0, <2>1, <2>2, <2>3, <2>5 DEF ConnectFails, Advance
  <2>6. CASE StreamEnds(r) \/ TimesOut(r)
    BY <1>0, <2>1, <2>2, <2>3, <2>6 DEF StreamEnds, TimesOut, Advance
  <2>7. ASSUME NEW result \in {"success", "failed", "unknown"}, Inspected(r, result)
        PROVE  SuccessesOver'
    BY <1>0, <2>1, <2>2, <2>3, <2>7 DEF Inspected, Advance
  <2> QED
    BY <1>4, <2>4, <2>5, <2>6, <2>7
<1>5. ASSUME NEW r \in Runs, CommandEnds(r) PROVE SuccessesOver'
  BY <1>5 DEF CommandEnds
<1>6. ASSUME NEW r \in Runs, LogOutcome(r) PROVE SuccessesOver'
  BY <1>0, <1>6 DEF LogOutcome, AppendEvent
<1>7. CASE Crash
  BY <1>0, <1>7 DEF Crash
<1> QED
  BY <1>1, <1>2, <1>3, <1>4, <1>5, <1>6, <1>7
  DEF Next, Request, Tick, Perform, Finish, CreateJob, UpdateJob, DeleteJob, Trigger, MinutePasses,
      vars

\* Two commands of a job are alive together only if the older one was given
\* up: by a death of the process, by its timer or without its exit code; and it
\* is not a success in the history.
THEOREM OverlapIsAbandoned == Spec => []OverlapOnlyWhenAbandoned
<1>1. Init => LastActive /\ Held /\ LivesPast /\ CommandsTracked /\ SuccessesOver
  BY DEF Init, LastActive, Held, LivesPast, CommandsTracked, SuccessesOver, Active
<1>2. TypeOK /\ LastActive /\ CommandsTracked /\ SuccessesOver => OverlapOnlyWhenAbandoned
  <2> SUFFICES ASSUME TypeOK, LastActive, CommandsTracked, SuccessesOver,
                      NEW q \in commands, NEW r \in commands, q[1] = r[1], q[2] < r[2]
               PROVE  /\ outcome[q] \in GivenUp \/ run[q].life < life
                      /\ history[q] # "success"
    BY DEF OverlapOnlyWhenAbandoned
  <2>1. q \in Runs /\ r \in Runs
    BY DEF TypeOK, OutsideTyped
  <2>2. history[q] # "success"
    BY <2>1 DEF SuccessesOver
  <2>3. ASSUME outcome[q] \notin GivenUp, ~(run[q].life < life)
        PROVE  FALSE
    <3>1. phase[q] \in {"racing", "inspecting"} /\ phase[r] # "none"
      BY <2>3 DEF CommandsTracked
    <3>2. q[2] = started[q[1]]
      BY <2>1, <3>1 DEF LastActive, Active
    <3>3. ~(r[2] > started[r[1]])
      BY <2>1, <3>1 DEF TypeOK, RunsCounted
    <3>4. q[2] \in Nat /\ r[2] \in Nat
      BY <2>1 DEF Runs, Ranks
    <3> QED
      BY <3>2, <3>3, <3>4
  <2> QED
    BY <2>2, <2>3
<1>3. /\ TypeOK /\ LastActive /\ Held /\ LivesPast /\ CommandsTracked /\ SuccessesOver
      /\ [Next]_vars
      => LastActive' /\ Held' /\ LivesPast' /\ CommandsTracked' /\ SuccessesOver'
  BY GuardStep, LivesStep, CommandsStep, SuccessesStep
<1> QED
  BY <1>1, <1>2, <1>3, TypeCorrect, PTL DEF Spec

-----------------------------------------------------------------------------
(* The minutes treated.                                                    *)

\* A run the scheduler started for this job in this life of the process.
Scheduled(r) == phase[r] # "none" /\ run[r].trigger = "scheduled"

\* The last minute treated says enough: this life treated nothing after it.
Remembered(j, minute) == treated[j] # Never /\ minute <= treated[j]

TreatedRemembered ==
  /\ \A j \in Jobs : treated[j] # Never => treated[j] <= clock
  /\ \A r \in Runs : Scheduled(r) /\ run[r].life = life => Remembered(r[1], run[r].minute)
  /\ \A s \in skipped : s[3] <= life /\ (s[3] = life => Remembered(s[1], s[2]))

MinutesInv == LivesPast /\ TreatedRemembered /\ TreatedOncePerMinute

LEMMA MinutesStep ==
  ASSUME TypeOK, MinutesInv, [Next]_vars
  PROVE  MinutesInv'
<1>0. LivesPast'
  BY LivesStep DEF MinutesInv
<1> SUFFICES TreatedRemembered' /\ TreatedOncePerMinute'
  BY <1>0 DEF MinutesInv
<1> USE DEF Remembered, Scheduled
<1>1. ASSUME UNCHANGED <<run, treated, skipped, life>>, clock' \in Nat, clock' >= clock,
             \A r \in Runs : phase'[r] = "none" <=> phase[r] = "none"
      PROVE  TreatedRemembered' /\ TreatedOncePerMinute'
  <2>1. TreatedRemembered'
    BY <1>1, CountsAssumption DEF MinutesInv, TreatedRemembered, TypeOK, RequestsTyped, GuardTyped, Never
  <2>2. TreatedOncePerMinute'
    BY <1>1 DEF MinutesInv, TreatedOncePerMinute
  <2> QED
    BY <2>1, <2>2
<1>2. CASE Aside
  BY <1>1, <1>2, CountsAssumption
  DEF Aside, CreateJob, UpdateJob, DeleteJob, Announced, CommandEnds, MinutePasses,
      vars, requestVars, guardVars, runVars, TypeOK, RequestsTyped
<1>3. ASSUME NEW r \in Runs, Middle(r) \/ LogOutcome(r)
      PROVE  TreatedRemembered' /\ TreatedOncePerMinute'
  BY <1>1, <1>3
  DEF Middle, Connected, ConnectFails, StreamEnds, TimesOut, Inspected, Advance, LogOutcome,
      requestVars, guardVars, TypeOK, RunsTyped, RequestsTyped
<1>4. ASSUME NEW j \in Jobs, Trigger(j)
      PROVE  TreatedRemembered' /\ TreatedOncePerMinute'
  <2>1. Start({j}, "manual") /\ UNCHANGED <<clock, treated, skipped, life>>
    BY <1>4 DEF Trigger, requestVars
  <2>2. \A r \in Runs : Scheduled(r)' => Scheduled(r) /\ run'[r] = run[r]
    BY <2>1, StartRuns
  <2>3. TreatedRemembered'
    BY <2>1, <2>2 DEF MinutesInv, TreatedRemembered
  <2>4. TreatedOncePerMinute'
    BY <2>1, <2>2 DEF MinutesInv, TreatedOncePerMinute
  <2> QED
    BY <2>3, <2>4
<1>5. CASE Tick
  <2>1. PICK J \in SUBSET Jobs, K \in SUBSET Jobs :
          /\ J = K \ executing
          /\ \A j \in K : IsDue(j)
          /\ Start(J, "scheduled")
          /\ treated' = [j \in Jobs |-> IF j \in K THEN clock ELSE treated[j]]
          /\ skipped' = skipped \cup {<<j, clock, life>> : j \in K \ J}
          /\ UNCHANGED <<clock, life>>
    BY <1>5 DEF Tick, requestVars
  <2>2. clock \in 0 .. MaxMinute /\ clock # Never /\ life \in Nat
    BY CountsAssumption DEF TypeOK, RequestsTyped, HistoryTyped, Never
  <2>3. \A j \in Jobs :
          /\ treated[j] \in Nat /\ treated'[j] \in Nat
          /\ treated[j] # Never => treated'[j] # Never /\ treated[j] <= treated'[j]
    BY <2>1, <2>2, CountsAssumption DEF TypeOK, GuardTyped, MinutesInv, TreatedRemembered, Never
  <2>4. \A j \in K, minute \in Nat : Remembered(j, minute) => minute < clock
    BY <2>1, <2>2, <2>3 DEF MinutesInv, TreatedRemembered, IsDue
  <2>5. ASSUME NEW r \in Runs, Scheduled(r)'
        PROVE  \/ Scheduled(r) /\ run'[r] = run[r]
               \/ r[1] \in J /\ r[2] = started'[r[1]] /\ run'[r].minute = clock /\ run'[r].life = life
    BY <2>1, <2>5, StartRuns
  <2>6. \A r \in Runs : run[r].minute \in Nat /\ run[r].life \in Nat /\ r[1] \in Jobs
    BY DEF TypeOK, RunsTyped, Runs
  <2>7. \A s \in skipped : s[1] \in Jobs /\ s[2] \in Nat /\ s[3] \in Nat
    BY DEF TypeOK, HistoryTyped
  <2>8. TreatedRemembered'
    <3>1. \A j \in Jobs : treated'[j] # Never => treated'[j] <= clock
      BY <2>1, <2>2 DEF MinutesInv, TreatedRemembered
    <3>2. ASSUME NEW r \in Runs, Scheduled(r)', run'[r].life = life
          PROVE  Remembered(r[1], run[r].minute)'
      <4>1. CASE Scheduled(r) /\ run'[r] = run[r]
        <5>1. Remembered(r[1], run[r].minute)
          BY <3>2, <4>1 DEF MinutesInv, TreatedRemembered
        <5> QED
          BY <2>3, <2>6, <4>1, <5>1 DEF Never
      <4>2. CASE r[1] \in J /\ run'[r].minute = clock
        BY <2>1, <2>2, <4>2 DEF Never
      <4> QED
        BY <2>5, <3>2, <4>1, <4>2
    <3>3. ASSUME NEW s \in skipped'
          PROVE  s[3] <= life /\ (s[3] = life => Remembered(s[1], s[2])')
      <4>1. CASE s \in skipped
        <5>1. s[3] <= life /\ (s[3] = life => Remembered(s[1], s[2]))
          BY <4>1 DEF MinutesInv, TreatedRemembered
        <5> QED
          BY <2>3, <2>7, <4>1, <5>1 DEF Never
      <4>2. CASE \E j \in K \ J : s = <<j, clock, life>>
        BY <2>1, <2>2, <4>2 DEF Never
      <4> QED
        BY <2>1, <3>3, <4>1, <4>2
    <3> QED
      BY <2>1, <3>1, <3>2, <3>3 DEF TreatedRemembered, Never
  <2>9. TreatedOncePerMinute'
    <3> SUFFICES ASSUME NEW r \in Runs, Scheduled(r)'
                 PROVE  /\ <<r[1], run'[r].minute, run'[r].life>> \notin skipped'
                        /\ \A q \in Runs : q[1] = r[1] /\ q # r /\ Scheduled(q)' =>
                             run'[q].minute # run'[r].minute \/ run'[q].life # run'[r].life
      BY DEF TreatedOncePerMinute
    <3>1. CASE Scheduled(r) /\ run'[r] = run[r]
      <4>1. \A j \in K \ J : <<r[1], run[r].minute, run[r].life>> # <<j, clock, life>>
        BY <2>2, <2>4, <2>6, <3>1 DEF MinutesInv, TreatedRemembered
      <4>2. <<r[1], run[r].minute, run[r].life>> \notin skipped
        BY <3>1 DEF MinutesInv, TreatedOncePerMinute
      <4>3. ASSUME NEW q \in Runs, q[1] = r[1], q # r, Scheduled(q)'
            PROVE  run'[q].minute # run[r].minute \/ run'[q].life # run[r].life
        <5>1. CASE Scheduled(q) /\ run'[q] = run[q]
          BY <3>1, <4>3, <5>1 DEF MinutesInv, TreatedOncePerMinute
        <5>2. CASE q[1] \in J /\ run'[q].minute = clock /\ run'[q].life = life
          BY <2>1, <2>2, <2>4, <2>6, <3>1, <4>3, <5>2 DEF MinutesInv, TreatedRemembered
        <5> QED
          BY <2>5, <4>3, <5>1, <5>2
      <4> QED
        BY <2>1, <3>1, <4>1, <4>2, <4>3
    <3>2. CASE r[1] \in J /\ r[2] = started'[r[1]] /\ run'[r].minute = clock /\ run'[r].life = life
      <4>1. <<r[1], clock, life>> \notin skipped
        BY <2>1, <2>2, <2>4, <3>2 DEF MinutesInv, TreatedRemembered
      <4>2. <<r[1], clock, life>> \notin {<<j, clock, life>> : j \in K \ J}
        BY <3>2
      <4>3. ASSUME NEW q \in Runs, q[1] = r[1], q # r, Scheduled(q)'
            PROVE  run'[q].minute # clock \/ run'[q].life # life
        <5>1. CASE Scheduled(q) /\ run'[q] = run[q]
          BY <2>1, <2>2, <2>4, <2>6, <3>2, <4>3, <5>1 DEF MinutesInv, TreatedRemembered
        <5>2. CASE q[2] = started'[q[1]]
          BY <3>2, <4>3, <5>2 DEF Runs
        <5> QED
          BY <2>5, <4>3, <5>1, <5>2
      <4> QED
        BY <2>1, <3>2, <4>1, <4>2, <4>3
    <3> QED
      BY <2>5, <3>1, <3>2
  <2> QED
    BY <2>8, <2>9
<1>6. CASE Crash
  <2>1. life' = life + 1 /\ life \in Nat /\ UNCHANGED <<run, skipped>> /\ treated' = [j \in Jobs |-> Never]
    BY <1>6 DEF Crash, TypeOK, HistoryTyped
  <2>2. \A r \in Runs : phase'[r] = "none" <=> phase[r] = "none"
    BY <1>6 DEF Crash
  <2>3. \A r \in Runs : Scheduled(r) => run[r].life # life + 1
    BY <2>1 DEF MinutesInv, LivesPast, TypeOK, RunsTyped
  <2>4. \A s \in skipped : s[3] <= life + 1 /\ s[3] # life + 1
    BY <2>1 DEF MinutesInv, TreatedRemembered, TypeOK, HistoryTyped
  <2>5. TreatedRemembered'
    BY <2>1, <2>2, <2>3, <2>4 DEF TreatedRemembered, Never
  <2>6. TreatedOncePerMinute'
    BY <2>1, <2>2 DEF MinutesInv, TreatedOncePerMinute
  <2> QED
    BY <2>5, <2>6
<1> QED
  BY <1>2, <1>3, <1>4, <1>5, <1>6 DEF Next, Request, Perform, Finish, Aside, Middle

\* Within one life of the process no minute of a job is treated twice, however
\* the ticks fall: fired once by the scheduler or skipped, never both.
THEOREM MinutesTreatedOnce == Spec => []TreatedOncePerMinute
<1>1. Init => MinutesInv
  BY DEF Init, MinutesInv, LivesPast, TreatedRemembered, TreatedOncePerMinute, Scheduled
<1>2. MinutesInv => TreatedOncePerMinute
  BY DEF MinutesInv
<1>3. TypeOK /\ MinutesInv /\ [Next]_vars => MinutesInv'
  BY MinutesStep
<1> QED
  BY <1>1, <1>2, <1>3, TypeCorrect, PTL DEF Spec

-----------------------------------------------------------------------------
(* The expressions, whatever the jobs do with them.                        *)

\* Within a field, the readers agree on a part that is no "N/S", when the
\* field starts at 0 or the part is no "*/S".
LEMMA SamePart ==
  ASSUME NEW p \in Part, NEW min \in {0, 1}, NEW max \in Nat, NEW v \in min .. max,
         StepOf(p) > 0, ~(p.form = "N" /\ p.stepped),
         p.form = "*" => min = 0 \/ StepOf(p) = 1
  PROVE  JobReads(p, min, max, v) <=> BackupReads(p, max, v)
<1>1. StepOf(p) \in Nat \ {0}
  BY DEF StepOf, Part
<1>2. CASE p.form = "*" /\ min = 0
  BY <1>1, <1>2 DEF JobReads, BackupReads, BackupStart, BackupEnd, JobStart, JobEnd, Strides, Part
<1>3. CASE p.form = "*" /\ StepOf(p) = 1
  <2>1. (v - min) % 1 = 0 /\ (v - 0) % 1 = 0
    OBVIOUS
  <2> QED BY <1>3, <2>1 DEF JobReads, BackupReads, BackupStart, BackupEnd, JobStart, JobEnd, Strides, Part
<1>4. CASE p.form = "N"
  BY <1>1, <1>4 DEF JobReads, BackupReads, BackupStart, BackupEnd, JobStart, JobEnd, Strides, Part
<1>5. CASE p.form = "A-B"
  BY <1>1, <1>5 DEF JobReads, BackupReads, BackupStart, BackupEnd, JobStart, JobEnd, Strides, Part
<1> QED BY <1>2, <1>3, <1>4, <1>5 DEF Part

\* The same for a field the cron jobs accept.
LEMMA SameField ==
  ASSUME NEW f \in Field, NEW min \in {0, 1}, NEW max \in Nat, NEW v \in min .. max,
         JobAccepts(f, min, max), NoOpenStep(f), min = 0 \/ NoStarStep(f)
  PROVE  JobHas(f, min, max, v) <=> BackupHas(f, max, v)
<1>1. \A i \in DOMAIN f : f[i] \in Part
  BY DEF Field
<1>2. ASSUME NEW i \in DOMAIN f
      PROVE  JobReads(f[i], min, max, v) <=> BackupReads(f[i], max, v)
  BY <1>1, SamePart DEF JobAccepts, NoOpenStep, NoStarStep
<1> QED BY <1>2 DEF JobHas, BackupHas

\* The value 7 of the day of the week changes nothing to the others.
LEMMA WiderRange ==
  ASSUME NEW p \in Part, NEW v \in 0 .. 6
  PROVE  BackupReads(p, 6, v) <=> BackupReads(p, 7, v)
<1>1. BackupStart(p) \in Nat /\ BackupEnd(p, 6) \in Nat /\ BackupEnd(p, 7) \in Nat
  BY DEF BackupStart, BackupEnd, Part
<1>2. BackupEnd(p, 6) = BackupEnd(p, 7) \/ (BackupEnd(p, 6) = 6 /\ BackupEnd(p, 7) = 7)
  BY DEF BackupEnd, Part
<1>3. v \in BackupStart(p) .. BackupEnd(p, 6) <=> v \in BackupStart(p) .. BackupEnd(p, 7)
  BY <1>1, <1>2
<1> QED BY <1>3 DEF BackupReads, Strides

\* The day of the week, whose value 7 only backups know.
LEMMA SameDayOfWeek ==
  ASSUME NEW f \in Field, NEW v \in 0 .. 6, JobAccepts(f, 0, 6), NoOpenStep(f)
  PROVE  JobHas(f, 0, 6, v) <=> \/ BackupHas(f, 7, v)
                                \/ v = 0 /\ BackupHas(f, 7, 7)
<1>1. \A i \in DOMAIN f : f[i] \in Part
  BY DEF Field
<1>2. ASSUME NEW i \in DOMAIN f
      PROVE  /\ JobReads(f[i], 0, 6, v) <=> BackupReads(f[i], 7, v)
             /\ BackupReads(f[i], 7, 7) => JobReads(f[i], 0, 6, 0)
  <2> DEFINE p == f[i]
  <2>1. p \in Part /\ StepOf(p) \in Nat \ {0} /\ ~(p.form = "N" /\ p.stepped)
    BY <1>1 DEF JobAccepts, NoOpenStep, StepOf, Part
  <2>2. p.form # "*" => p.a \in 0 .. 6 /\ (p.form = "A-B" => p.b \in 0 .. 6)
    BY <2>1 DEF JobAccepts, JobStart, JobEnd, Part
  <2> HIDE DEF p
  <2>3. JobReads(p, 0, 6, v) <=> BackupReads(p, 7, v)
    BY <2>1, SamePart, WiderRange
  <2>4. BackupReads(p, 7, 7) => p.form = "*"
    BY <2>1, <2>2 DEF BackupReads, BackupStart, BackupEnd, Strides, Part
  <2>5. p.form = "*" => JobReads(p, 0, 6, 0)
    <3>1. (0 - 0) % StepOf(p) = 0
      BY <2>1
    <3> QED BY <3>1 DEF JobReads, JobStart, JobEnd, Strides
  <2> QED BY <2>3, <2>4, <2>5 DEF p
<1> QED BY <1>2 DEF JobHas, BackupHas

\* parseCronExpression and cronMatches: an expression that the cron jobs
\* accept fires at the same minutes as the schedule of a backup, unless it has
\* an "N/S", a "*/S" for the day of the month or the month, or restricts both
\* fields for the day.
THEOREM SameMinutes ==
  ASSUME NEW e \in Expression, NEW t \in Moment, isValidCronExpression(e), Plain(e)
  PROVE  JobMatches(e, t) <=> cronMatches(e, t)
<1> USE DEF Expression, Moment, isValidCronExpression, Plain
<1>1. JobHas(e.minute, 0, 59, t.minute) <=> BackupHas(e.minute, 59, t.minute)
  BY SameField
<1>2. JobHas(e.hour, 0, 23, t.hour) <=> BackupHas(e.hour, 23, t.hour)
  BY SameField
<1>3. JobHas(e.dayOfMonth, 1, 31, t.dayOfMonth) <=> BackupHas(e.dayOfMonth, 31, t.dayOfMonth)
  BY SameField
<1>4. JobHas(e.month, 1, 12, t.month) <=> BackupHas(e.month, 12, t.month)
  BY SameField
<1>5. JobHas(e.dayOfWeek, 0, 6, t.dayOfWeek)
        <=> \/ BackupHas(e.dayOfWeek, 7, t.dayOfWeek)
            \/ t.dayOfWeek = 0 /\ BackupHas(e.dayOfWeek, 7, 7)
  BY SameDayOfWeek
<1> QED BY <1>1, <1>2, <1>3, <1>4, <1>5 DEF JobMatches, cronMatches

\* What a backup reads in a part, a cron job reads too, when the field starts
\* at 0 or the part is no "*/S".
LEMMA NarrowerPart ==
  ASSUME NEW p \in Part, NEW min \in {0, 1}, NEW max \in Nat, NEW v \in min .. max,
         StepOf(p) > 0, p.form = "*" => min = 0 \/ StepOf(p) = 1, BackupReads(p, max, v)
  PROVE  JobReads(p, min, max, v)
<1>1. CASE p.form = "N" /\ p.stepped
  <2>1. v = p.a /\ StepOf(p) \in Nat \ {0}
    <3>1. BackupStart(p) = p.a /\ BackupEnd(p, max) = p.a /\ p.a \in Nat
      BY <1>1 DEF BackupStart, BackupEnd, Part
    <3>2. StepOf(p) \in Nat \ {0}
      BY DEF StepOf, Part
    <3> QED BY <3>1, <3>2 DEF BackupReads, Strides
  <2>2. (v - v) % StepOf(p) = 0
    BY <2>1
  <2> QED BY <1>1, <2>1, <2>2 DEF JobReads, JobStart, JobEnd, Strides, Part
<1>2. CASE ~(p.form = "N" /\ p.stepped)
  BY <1>2, SamePart
<1> QED BY <1>1, <1>2

\* The same for a field the cron jobs accept.
LEMMA NarrowerField ==
  ASSUME NEW f \in Field, NEW min \in {0, 1}, NEW max \in Nat, NEW v \in min .. max,
         JobAccepts(f, min, max), min = 0 \/ NoStarStep(f), BackupHas(f, max, v)
  PROVE  JobHas(f, min, max, v)
<1>1. PICK i \in DOMAIN f : BackupReads(f[i], max, v)
  BY DEF BackupHas
<1>2. f[i] \in Part /\ StepOf(f[i]) > 0
  BY DEF Field, JobAccepts
<1>3. JobReads(f[i], min, max, v)
  BY <1>1, <1>2, NarrowerPart DEF NoStarStep
<1> QED BY <1>3 DEF JobHas

\* The same for the day of the week.
LEMMA NarrowerDayOfWeek ==
  ASSUME NEW f \in Field, NEW v \in 0 .. 6, JobAccepts(f, 0, 6),
         BackupHas(f, 7, v) \/ (v = 0 /\ BackupHas(f, 7, 7))
  PROVE  JobHas(f, 0, 6, v)
<1>1. \A i \in DOMAIN f : f[i] \in Part
  BY DEF Field
<1>2. CASE BackupHas(f, 7, v)
  <2>1. PICK i \in DOMAIN f : BackupReads(f[i], 7, v)
    BY <1>2 DEF BackupHas
  <2>2. BackupReads(f[i], 6, v)
    BY <1>1, <2>1, WiderRange
  <2> QED BY <2>2, NarrowerField DEF BackupHas
<1>3. CASE v = 0 /\ BackupHas(f, 7, 7)
  <2>1. PICK i \in DOMAIN f : BackupReads(f[i], 7, 7)
    BY <1>3 DEF BackupHas
  <2> DEFINE p == f[i]
  <2>2. p \in Part /\ StepOf(p) \in Nat \ {0}
    BY <1>1 DEF JobAccepts, StepOf, Part
  <2>3. p.form = "*" \/ (p.form = "N" /\ p.a = 7)
    <3>1. p.form = "A-B" => p.b <= 6
      BY <2>2 DEF JobAccepts, JobEnd
    <3> HIDE DEF p
    <3>2. BackupReads(p, 7, 7)
      BY <2>1 DEF p
    <3> QED BY <2>2, <3>1, <3>2 DEF BackupReads, BackupStart, BackupEnd, Strides, Part
  <2>4. p.form = "N" => p.a <= 6
    BY <2>2 DEF JobAccepts, JobStart, JobEnd, Part
  <2> HIDE DEF p
  <2>5. p.form = "*"
    BY <2>2, <2>3, <2>4 DEF Part
  <2>6. JobReads(p, 0, 6, 0)
    <3>1. (0 - 0) % StepOf(p) = 0
      BY <2>2
    <3> QED BY <2>5, <3>1 DEF JobReads, JobStart, JobEnd, Strides
  <2> QED BY <1>3, <2>6 DEF JobHas, p
<1> QED BY <1>2, <1>3

\* Of an expression without "*/S" for the day of the month or the month, a
\* backup has at most the minutes of a cron job: "N/S" and two restricted
\* fields for the day make it run less often, never at another minute.
THEOREM BackupsFireLess ==
  ASSUME NEW e \in Expression, NEW t \in Moment, isValidCronExpression(e),
         NoStarStep(e.dayOfMonth), NoStarStep(e.month), cronMatches(e, t)
  PROVE  JobMatches(e, t)
<1> USE DEF Expression, Moment, isValidCronExpression, cronMatches
<1>1. JobHas(e.minute, 0, 59, t.minute)
  BY NarrowerField
<1>2. JobHas(e.hour, 0, 23, t.hour)
  BY NarrowerField
<1>3. JobHas(e.dayOfMonth, 1, 31, t.dayOfMonth)
  BY NarrowerField
<1>4. JobHas(e.month, 1, 12, t.month)
  BY NarrowerField
<1>5. JobHas(e.dayOfWeek, 0, 6, t.dayOfWeek)
  <2>1. BackupHas(e.dayOfWeek, 7, t.dayOfWeek)
          \/ (t.dayOfWeek = 0 /\ BackupHas(e.dayOfWeek, 7, 7))
    OBVIOUS
  <2>2. e.dayOfWeek \in Field /\ t.dayOfWeek \in 0 .. 6 /\ JobAccepts(e.dayOfWeek, 0, 6)
    OBVIOUS
  <2> HIDE DEF cronMatches, Expression, Moment, isValidCronExpression
  <2> QED BY <2>1, <2>2, NarrowerDayOfWeek
<1> QED BY <1>1, <1>2, <1>3, <1>4, <1>5 DEF JobMatches

\* A field the cron jobs accept has a value in its range: the validation of
\* routes/cronJobs.ts:84 lets no field through that could never match.
LEMMA AcceptedFieldMatches ==
  ASSUME NEW f \in Field \ {<<>>}, NEW min \in {0, 1}, NEW max \in Nat, JobAccepts(f, min, max)
  PROVE  \E v \in min .. max : JobHas(f, min, max, v)
<1>1. 1 \in DOMAIN f /\ f[1] \in Part
  BY DEF Field
<1> DEFINE p == f[1]
           v == JobStart(p, min)
<1>2. /\ StepOf(p) \in Nat \ {0} /\ v \in Nat /\ JobEnd(p, max) \in Nat
      /\ min <= v /\ v <= JobEnd(p, max) /\ JobEnd(p, max) <= max
  BY <1>1 DEF JobAccepts, StepOf, Part, JobStart, JobEnd
<1>3. (v - v) % StepOf(p) = 0
  BY <1>2
<1>4. JobReads(p, min, max, v)
  BY <1>2, <1>3 DEF JobReads, Strides
<1>5. v \in min .. max
  BY <1>2
<1> QED BY <1>1, <1>4, <1>5 DEF JobHas

\* routes/cronJobs.ts:84 and :106: an accepted job has a moment at which it
\* fires, were it a 31st of February; the calendar alone can keep it from
\* firing, never its text.  The check of backups, of the form only
\* (backupsStore.ts:148), promises nothing of the kind.
THEOREM AcceptedJobFires ==
  ASSUME NEW e \in Expression, isValidCronExpression(e)
  PROVE  \E t \in Moment : JobMatches(e, t)
<1> USE DEF Expression, isValidCronExpression
<1>1. PICK m \in 0 .. 59 : JobHas(e.minute, 0, 59, m)
  BY AcceptedFieldMatches
<1>2. PICK h \in 0 .. 23 : JobHas(e.hour, 0, 23, h)
  BY AcceptedFieldMatches
<1>3. PICK d \in 1 .. 31 : JobHas(e.dayOfMonth, 1, 31, d)
  BY AcceptedFieldMatches
<1>4. PICK n \in 1 .. 12 : JobHas(e.month, 1, 12, n)
  BY AcceptedFieldMatches
<1>5. PICK w \in 0 .. 6 : JobHas(e.dayOfWeek, 0, 6, w)
  BY AcceptedFieldMatches
<1> DEFINE t == [minute |-> m, hour |-> h, dayOfMonth |-> d, month |-> n, dayOfWeek |-> w]
<1>6. t \in Moment
  BY DEF Moment
<1>7. JobMatches(e, t)
  BY <1>1, <1>2, <1>3, <1>4, <1>5 DEF JobMatches
<1> QED BY <1>6, <1>7
=============================================================================
