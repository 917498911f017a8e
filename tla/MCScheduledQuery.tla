-------------------------- MODULE MCScheduledQuery --------------------------
(***************************************************************************)
(* ScheduledQuery on days of four minutes, with every kind of schedule.    *)
(***************************************************************************)
EXTENDS ScheduledQuery

MCSchedule(interval, time, day) ==
    [interval |-> interval, time |-> time, day_of_week |-> day]

\* Every two minutes; daily early, at noon and in the last minute of the day; every third day;
\* weekly on Monday, Wednesday and Sunday
MCSchedules ==
    { MCSchedule(2, None, None),
      MCSchedule(4, 0, None), MCSchedule(4, 2, None), MCSchedule(4, 3, None),
      MCSchedule(12, 1, None),
      MCSchedule(28, 2, 0), MCSchedule(28, 1, 2), MCSchedule(28, 3, 6) }

\* Every week on Wednesday
WeeklyOnWednesday == { MCSchedule(28, 1, 2) }
=============================================================================
