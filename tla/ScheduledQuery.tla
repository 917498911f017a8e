--------------------------- MODULE ScheduledQuery ---------------------------
(***************************************************************************)
(* The life of one scheduled query seen through the date arithmetic alone: *)
(* refresh_queries_task wakes up, Query.outdated_queries asks              *)
(* should_schedule_next, the query is executed and its result becomes the  *)
(* latest one.  Executions take no time here; QueryExecution models how    *)
(* they are queued, interleaved and lost.                                  *)
(***************************************************************************)
EXTENDS Schedule

CONSTANTS
    Schedules,    \* the schedules the query may have been saved with
    MaxNow,       \* bound: the last minute of the horizon
    MaxSleep,     \* bound: the longest time between two wake-ups
    MaxFailures   \* bound: failures counted in the horizon

ASSUME SchedulesAssumption == Schedules \subseteq ScheduleType
\* A time of day comes with an interval of whole days, as the user interface offers them
ASSUME WholeDaysAssumption == \A s \in Schedules : s.time # None => s.interval % DayLen = 0
ASSUME BoundsAssumption == MaxNow \in Nat /\ MaxSleep \in Nat /\ MaxFailures \in Nat

VARIABLES
    schedule,  \* queries.schedule, saved once
    now,       \* the minute
    last,      \* latest_query_data.retrieved_at, None when never executed
    failures   \* queries.schedule_failures

vars == <<schedule, now, last, failures>>

Init ==
    /\ schedule \in Schedules
    /\ now = 0
    /\ last = None
    /\ failures = 0

\* A query without a result would be due immediately
DueOrNeverRun(t) ==
    \/ last = None
    \/ ShouldScheduleNext(last, t, schedule, failures)

\* `retrieved_at or now`: a query without a result counts as executed just now
Due(t) ==
    ShouldScheduleNext(IF last = None THEN t ELSE last, t, schedule, failures)

\* The periodic task wakes up; it is late when the worker was busy or down
Wake ==
    /\ \E sleep \in 1 .. MaxSleep : now' = now + sleep
    /\ now' <= MaxNow
    /\ UNCHANGED schedule

\* Not outdated
Skip ==
    /\ Wake
    /\ ~Due(now')
    /\ UNCHANGED <<last, failures>>

\* A result stamped with the scheduled time of its day, which may be yet to come
StampedAsScheduled ==
    /\ Wake
    /\ Due(now')
    /\ last' = IF schedule.time = None THEN now' ELSE AtTime(now', schedule.time)
    /\ UNCHANGED failures

\* Outdated and executed: the result is the latest one, failures stay counted
ScheduledRun ==
    /\ Wake
    /\ Due(now')
    /\ last' = now'
    /\ UNCHANGED failures

\* Outdated, and the execution ends with an error (track_query_error)
ScheduledFailure ==
    /\ Wake
    /\ Due(now')
    /\ failures < MaxFailures
    /\ failures' = failures + 1
    /\ UNCHANGED last

\* A user executes the query: update_latest_result does not ask who did
UserRun ==
    /\ last' = now
    /\ UNCHANGED <<schedule, now, failures>>

Next == Skip \/ ScheduledRun \/ ScheduledFailure \/ UserRun

Spec == Init /\ [][Next]_vars
-----------------------------------------------------------------------------
\* The type of the variables; the latest result is never from the future.
TypeOK ==
    /\ schedule \in Schedules
    /\ now \in Nat
    /\ last \in Nat \cup {None}
    /\ last # None => last <= now
    /\ failures \in Nat

Healthy == failures = 0 /\ last # None
Daily == schedule.time # None /\ schedule.day_of_week = None

(***************************************************************************)
(* A daily schedule misses no day: after every wake-up, late or not, no    *)
(* occurrence of the scheduled time lies strictly between the last         *)
(* execution and now.  This is what the normalisation of the previous      *)
(* iteration in should_schedule_next is for (the 23:59 / 00:01 case of its *)
(* comment).                                                               *)
(***************************************************************************)
NoDayMissed ==
    Healthy /\ Daily /\ schedule.interval = DayLen =>
        ~ \E t \in (last + 1) .. (now - 1) : t % DayLen = schedule.time

(***************************************************************************)
(* The latest result of a query that does not fail is never older than its *)
(* interval (plus the days should_schedule_next adds to reach the day of   *)
(* the week), whoever executed it and whenever the task woke up.           *)
(***************************************************************************)
NeverTooStale ==
    Healthy =>
        now - last <= schedule.interval
                      + (IF schedule.day_of_week = None THEN 0 ELSE 6 * DayLen)

(***************************************************************************)
(* A query that does not fail is executed in time: on each day of a daily  *)
(* schedule, and before its latest result is too old.                      *)
(***************************************************************************)
RunsOnTime == NoDayMissed /\ NeverTooStale

(***************************************************************************)
(* The scheduler never executes a query too soon: an interval, less the    *)
(* day an execution may be counted for the day before, and 2 ** failures   *)
(* minutes must have gone by since the latest result.                      *)
(***************************************************************************)
NeverTooSoon ==
    [][ScheduledRun /\ schedule.day_of_week = None =>
        now' - last > schedule.interval
                      - (IF schedule.time = None THEN 0 ELSE DayLen)
                      + (IF failures = 0 THEN 0 ELSE 2 ^ failures)]_vars

(***************************************************************************)
(* A query that was never executed is never executed by the scheduler,     *)
(* however long it waits: outdated_queries takes "now" for the time of its *)
(* latest result, and nothing is due at the time it was executed.          *)
(***************************************************************************)
FirstRunIsByHand == [][last = None /\ last' # None => UserRun]_vars

(***************************************************************************)
(* tests/test_models.py:103 says of a schedule with a day of the week that *)
(* "it should be running on Tuesdays": the next iteration falls on the     *)
(* requested day.                                                          *)
(***************************************************************************)
NextIterationOnRequestedDay ==
    last # None /\ schedule.day_of_week # None =>
        Weekday(PlainNextIteration(last, schedule)) = schedule.day_of_week
=============================================================================
