----------------------------- MODULE MCCronJobs -----------------------------
(***************************************************************************)
(* Values of the constants of CronJobs for TLC, and the check of the cron  *)
(* expressions over small fields, before the behaviours are explored.      *)
(***************************************************************************)
EXTENDS CronJobs, CronExpressions

Single(n) == [Star EXCEPT !.form = "N", !.a = n]
Between(m, n) == [Star EXCEPT !.form = "A-B", !.a = m, !.b = n]
Every(p, s) == [p EXCEPT !.stepped = TRUE, !.step = s]

EveryMinuteText ==
  [minute |-> <<Star>>, hour |-> <<Star>>, dayOfMonth |-> <<Star>>, month |-> <<Star>>,
   dayOfWeek |-> <<Star>>]

\* "* * * * *" over the minutes of a run of the checker.
EveryMinute ==
  {{m \in 0 .. MaxMinute :
      JobMatches(EveryMinuteText, [minute |-> m, hour |-> 0, dayOfMonth |-> 1, month |-> 1,
                                   dayOfWeek |-> 4])}}

-----------------------------------------------------------------------------
SmallParts ==
  [form : {"*", "N", "A-B"}, a : 0 .. 5, b : 0 .. 5, stepped : BOOLEAN, step : 0 .. 3]

\* The loop of parseField: start, start + step, ... up to the end.
ASSUME ReadsItsLoop ==
  \A p \in SmallParts, min \in {0, 1} : JobAccepts(<<p>>, min, 4) =>
    {v \in 0 .. 4 : JobReads(p, min, 4, v)}
      = {JobStart(p, min) + k * StepOf(p) : k \in 0 .. 4} \cap (0 .. JobEnd(p, 4))

DayFields ==
  {<<Star>>, <<Single(2)>>, <<Between(1, 3)>>, <<Every(Star, 2)>>, <<Every(Single(2), 3)>>,
   <<Single(1), Every(Between(2, 5), 2)>>}

Texts ==
  {[EveryMinuteText EXCEPT !.dayOfMonth = d, !.month = m, !.dayOfWeek = w] :
     d \in DayFields, m \in {<<Star>>, <<Every(Star, 3)>>}, w \in DayFields \cup {<<Single(7)>>}}

Moments ==
  [minute : {0}, hour : {0}, dayOfMonth : {1, 2, 3, 5, 31}, month : {1, 3, 12}, dayOfWeek : 0 .. 6]

Agree(e) == \A t \in Moments : JobMatches(e, t) <=> cronMatches(e, t)

\* Both readers fire at the same minutes, on the texts Plain allows.
ASSUME PlainAgrees == \A e \in Texts : isValidCronExpression(e) /\ Plain(e) => Agree(e)

\* Each of the forms Plain excludes does make a difference.
ASSUME OthersDiffer ==
  \A e \in {[EveryMinuteText EXCEPT !.dayOfWeek = <<Every(Single(2), 3)>>],
            [EveryMinuteText EXCEPT !.dayOfMonth = <<Every(Star, 2)>>],
            [EveryMinuteText EXCEPT !.month = <<Every(Star, 3)>>],
            [EveryMinuteText EXCEPT !.dayOfMonth = <<Single(2)>>, !.dayOfWeek = <<Single(2)>>]} :
    isValidCronExpression(e) /\ ~Agree(e)

\* What the cron jobs refuse, backups take, and may fire for ("7") or never.
ASSUME OnlyBackupsTake ==
  /\ ~isValidCronExpression([EveryMinuteText EXCEPT !.dayOfWeek = <<Single(7)>>])
  /\ \E t \in Moments : cronMatches([EveryMinuteText EXCEPT !.dayOfWeek = <<Single(7)>>], t)
  /\ \A t \in Moments : ~cronMatches([EveryMinuteText EXCEPT !.month = <<Single(13)>>], t)
=============================================================================
