------------------------------ MODULE Schedule ------------------------------
(***************************************************************************)
(* The date arithmetic that decides whether a saved query is due again:    *)
(* should_schedule_next of redash/utils/schedule.py.                       *)
(*                                                                         *)
(* A datetime is a number of minutes counted from the midnight that starts *)
(* some Monday.  DayLen is the number of minutes of a day: 1440 in the     *)
(* code, a handful in the models.  A time of day ("HH:MM" in the code) is  *)
(* a minute of the day, a day of the week is 0 (Monday) to 6, and None     *)
(* stands for Python's None.                                               *)
(***************************************************************************)
EXTENDS Integers

CONSTANTS
    DayLen,   \* minutes in a day
    None

ASSUME DayLenAssumption == DayLen \in Nat \ {0}
ASSUME NoneAssumption == None \notin Nat

Minute == 0 .. (DayLen - 1)
Weekdays == 0 .. 6
WeekLen == 7 * DayLen

(***************************************************************************)
(* A schedule a user can save.  The comment at the head of the function    *)
(* (time only with intervals of at least a day, a day of the week only     *)
(* with intervals of at least a week) is what the user interface offers.   *)
(***************************************************************************)
ScheduleType ==
    { s \in [interval : Nat, time : Minute \cup {None},
             day_of_week : Weekdays \cup {None}] :
        /\ s.time # None => s.interval >= DayLen
        /\ s.day_of_week # None => s.time # None /\ s.interval >= WeekLen }

\* datetime.weekday()
Weekday(t) == (t \div DayLen) % 7

\* t.replace(hour=..., minute=...): the same day at another time of day
AtTime(t, minute) == t - (t % DayLen) + minute

\* The comparison of timestamps that the comment in the function warns of
NaiveNextIteration(previous, s) ==
    IF s.time = None
    THEN previous + s.interval
    ELSE AtTime(previous + s.interval, s.time)

(***************************************************************************)
(* next_iteration, before the back-off.  When the time of day of the       *)
(* previous execution is before the scheduled one, the execution is        *)
(* counted as one of the day before, while the weekday is still taken from *)
(* the day it happened on.                                                 *)
(***************************************************************************)
PlainNextIteration(previous, s) ==
    IF s.time = None
    THEN previous + s.interval
    ELSE LET normalized == AtTime(previous, s.time)
             counted    == IF normalized > previous
                           THEN normalized - DayLen ELSE previous
             days       == IF s.day_of_week = None THEN 0
                           ELSE s.day_of_week - Weekday(normalized)
         IN  AtTime(counted + s.interval + days * DayLen, s.time)

\* A back-off that grows linearly
LinearBackoff(failures) == 2 * failures

\* 2 ** failures minutes are added once there is a failure
Backoff(failures) == IF failures = 0 THEN 0 ELSE 2 ^ failures

\* Due already at the moment of the next iteration
EagerScheduleNext(previous, now, s, failures) ==
    now >= PlainNextIteration(previous, s) + Backoff(failures)

\* An OverflowError of the back-off is answered False, as a date that no `now` passes would be
ShouldScheduleNext(previous, now, s, failures) ==
    now > PlainNextIteration(previous, s) + Backoff(failures)
=============================================================================
