-------------------------- MODULE CronExpressions --------------------------
(***************************************************************************)
(* The two readings of a cron expression: parseCronExpression, for the     *)
(* cron jobs (cronJobsScheduler.ts), and cronMatches, for the backups      *)
(* (backupScheduler.ts).  Both accept the same text, part by part; they do *)
(* not give it the same minutes.                                           *)
(*                                                                         *)
(* Abstracted: the text.  A field is the sequence of its parts.            *)
(***************************************************************************)
EXTENDS Integers, Sequences

\* "*", "N" or "A-B", then "/S" when it is stepped (FIELD_PATTERN, CRON_FIELD).
Part == [form : {"*", "N", "A-B"}, a : Nat, b : Nat, stepped : BOOLEAN, step : Nat]

Star == [form |-> "*", a |-> 0, b |-> 0, stepped |-> FALSE, step |-> 0]

Field == Seq(Part)

\* Five fields, of at least one part each.
Expression == [minute : Field \ {<<>>}, hour : Field \ {<<>>}, dayOfMonth : Field \ {<<>>},
               month : Field \ {<<>>}, dayOfWeek : Field \ {<<>>}]

\* What both readers take from a Date.
Moment == [minute : 0 .. 59, hour : 0 .. 23, dayOfMonth : 1 .. 31, month : 1 .. 12,
           dayOfWeek : 0 .. 6]

StepOf(p) == IF p.stepped THEN p.step ELSE 1

\* Every step-th value from start to end.
Strides(start, end, step, v) == v \in start .. end /\ (v - start) % step = 0

-----------------------------------------------------------------------------
(* Cron jobs: min .. max are the values of the field.                      *)

JobStart(p, min) == IF p.form = "*" THEN min ELSE p.a

JobEnd(p, max) ==
  IF p.form = "A-B" THEN p.b
  ELSE IF p.form = "N" /\ ~p.stepped THEN p.a
  ELSE max

\* Otherwise InvalidCronExpressionError: the route refuses the job.
JobAccepts(field, min, max) ==
  \A i \in DOMAIN field :
    /\ StepOf(field[i]) > 0
    /\ min <= JobStart(field[i], min)
    /\ JobStart(field[i], min) <= JobEnd(field[i], max)
    /\ JobEnd(field[i], max) <= max

JobReads(p, min, max, v) == Strides(JobStart(p, min), JobEnd(p, max), StepOf(p), v)

JobHas(field, min, max, v) == \E i \in DOMAIN field : JobReads(field[i], min, max, v)

isValidCronExpression(e) ==
  /\ JobAccepts(e.minute, 0, 59)
  /\ JobAccepts(e.hour, 0, 23)
  /\ JobAccepts(e.dayOfMonth, 1, 31)
  /\ JobAccepts(e.month, 1, 12)
  /\ JobAccepts(e.dayOfWeek, 0, 6)

Restricted(field) == field # <<Star>>

\* Of two restricted fields for the day, one is enough.
JobMatches(e, t) ==
  LET domOk == JobHas(e.dayOfMonth, 1, 31, t.dayOfMonth)
      dowOk == JobHas(e.dayOfWeek, 0, 6, t.dayOfWeek)
  IN /\ JobHas(e.minute, 0, 59, t.minute)
     /\ JobHas(e.hour, 0, 23, t.hour)
     /\ JobHas(e.month, 1, 12, t.month)
     /\ IF Restricted(e.dayOfMonth) /\ Restricted(e.dayOfWeek) THEN domOk \/ dowOk
        ELSE domOk /\ dowOk

-----------------------------------------------------------------------------
(* Backups: every field starts at 0, "N/S" is N, nothing is refused.       *)

BackupStart(p) == IF p.form = "*" THEN 0 ELSE p.a

BackupEnd(p, max) == CASE p.form = "*" -> max [] p.form = "A-B" -> p.b [] OTHER -> p.a

BackupReads(p, max, v) ==
  /\ StepOf(p) > 0
  /\ v <= max
  /\ Strides(BackupStart(p), BackupEnd(p, max), StepOf(p), v)

BackupHas(field, max, v) == \E i \in DOMAIN field : BackupReads(field[i], max, v)

\* Sunday is 0 and 7; both fields for the day must match.
cronMatches(e, t) ==
  /\ BackupHas(e.minute, 59, t.minute)
  /\ BackupHas(e.hour, 23, t.hour)
  /\ BackupHas(e.dayOfMonth, 31, t.dayOfMonth)
  /\ BackupHas(e.month, 12, t.month)
  /\ \/ BackupHas(e.dayOfWeek, 7, t.dayOfWeek)
     \/ t.dayOfWeek = 0 /\ BackupHas(e.dayOfWeek, 7, 7)

-----------------------------------------------------------------------------
(* Where the two agree.                                                    *)

\* No "N/S".
NoOpenStep(field) == \A i \in DOMAIN field : ~(field[i].form = "N" /\ field[i].stepped)

\* No "*/S" in a field that starts at 1.
NoStarStep(field) == \A i \in DOMAIN field : field[i].form = "*" => StepOf(field[i]) = 1

\* None of the three forms the two readers understand differently.
Plain(e) ==
  /\ NoOpenStep(e.minute) /\ NoOpenStep(e.hour) /\ NoOpenStep(e.dayOfMonth)
  /\ NoOpenStep(e.month) /\ NoOpenStep(e.dayOfWeek)
  /\ NoStarStep(e.dayOfMonth) /\ NoStarStep(e.month)
  /\ ~(Restricted(e.dayOfMonth) /\ Restricted(e.dayOfWeek))
=============================================================================
