------------------------ MODULE ScheduledQueryProofs ------------------------
(***************************************************************************)
(* Proofs about the date arithmetic of Schedule and about ScheduledQuery,  *)
(* for every length of the day, every set of schedules and every bound.    *)
(***************************************************************************)
EXTENDS ScheduledQuery, TLAPS

-----------------------------------------------------------------------------
(* Lemmas about the days of the calendar *)

\* A remainder by the length of the day is a minute of the day, and the rest is whole days.
LEMMA DivisionByDay ==
    ASSUME NEW t \in Int
    PROVE  /\ t \div DayLen \in Int
           /\ t % DayLen \in 0 .. (DayLen - 1)
           /\ t = DayLen * (t \div DayLen) + (t % DayLen)
  BY DayLenAssumption, Z3

\* What is not before a midnight is not on a day before it.
LEMMA MidnightMonotone ==
    ASSUME NEW t \in Int, NEW u \in Int, t - (t % DayLen) <= u
    PROVE  t - (t % DayLen) <= u - (u % DayLen)
<1> DEFINE d == t \div DayLen
           e == u \div DayLen
<1>1. d \in Int /\ t = DayLen * d + (t % DayLen) /\ t % DayLen \in 0 .. (DayLen - 1)
  BY DivisionByDay
<1>2. e \in Int /\ u = DayLen * e + (u % DayLen) /\ u % DayLen \in 0 .. (DayLen - 1)
  BY DivisionByDay
<1> HIDE DEF d, e
<1>3. d <= e
  <2> SUFFICES ASSUME e + 1 <= d PROVE FALSE
    BY <1>1, <1>2
  <2>1. DayLen * (e + 1) <= DayLen * d
    BY <1>1, <1>2, DayLenAssumption
  <2>2. DayLen * (e + 1) = DayLen * e + DayLen
    BY <1>2, DayLenAssumption
  <2> QED
    BY <1>1, <1>2, <2>1, <2>2, DayLenAssumption
<1>4. DayLen * d <= DayLen * e
  BY <1>1, <1>2, <1>3, DayLenAssumption
<1> QED
  BY <1>1, <1>2, <1>4, DayLenAssumption

\* AtTime keeps the day, so it moves a moment by less than a day; the minute becomes the one asked.
LEMMA AtTimeSameDay ==
    ASSUME NEW t \in Int, NEW m \in Minute
    PROVE  /\ AtTime(t, m) \in Int
           /\ t - DayLen < AtTime(t, m)
           /\ AtTime(t, m) < t + DayLen
  BY DivisionByDay, DayLenAssumption DEF AtTime, Minute

\* Two different days begin at least a day apart.
LEMMA WholeDaysApart ==
    ASSUME NEW d \in Int, NEW e \in Int, DayLen * d < DayLen * e
    PROVE  DayLen * d + DayLen <= DayLen * e
<1>1. d < e
  <2> SUFFICES ASSUME e <= d PROVE FALSE
    OBVIOUS
  <2>1. DayLen * e <= DayLen * d
    BY DayLenAssumption
  <2> QED
    BY <2>1, DayLenAssumption
<1>2. DayLen * (d + 1) <= DayLen * e
  BY <1>1, DayLenAssumption
<1>3. DayLen * (d + 1) = DayLen * d + DayLen
  BY DayLenAssumption
<1> QED
  BY <1>2, <1>3

\* The minute of the day after a number of whole days.
LEMMA DayIsUnique ==
    ASSUME NEW d \in Int, NEW m \in Minute
    PROVE  (DayLen * d + m) % DayLen = m
<1> DEFINE t == DayLen * d + m
           e == t \div DayLen
<1>1. t \in Int /\ m \in Int /\ 0 <= m /\ m < DayLen
  BY DayLenAssumption DEF Minute
<1>2. e \in Int /\ t = DayLen * e + (t % DayLen) /\ t % DayLen \in 0 .. (DayLen - 1)
  BY <1>1, DivisionByDay
<1>3. DayLen * d + m = DayLen * e + (t % DayLen)
  BY <1>2
<1> HIDE DEF t, e
<1>4. ~(DayLen * d < DayLen * e)
  <2> SUFFICES ASSUME DayLen * d < DayLen * e PROVE FALSE
    OBVIOUS
  <2>1. DayLen * d + DayLen <= DayLen * e
    BY <1>2, WholeDaysApart
  <2> QED
    BY <1>1, <1>2, <1>3, <2>1, DayLenAssumption
<1>5. ~(DayLen * e < DayLen * d)
  <2> SUFFICES ASSUME DayLen * e < DayLen * d PROVE FALSE
    OBVIOUS
  <2>1. DayLen * e + DayLen <= DayLen * d
    BY <1>2, WholeDaysApart
  <2> QED
    BY <1>1, <1>2, <1>3, <2>1, DayLenAssumption
<1>6. t % DayLen = m
  BY <1>1, <1>2, <1>3, <1>4, <1>5, DayLenAssumption
<1> QED
  BY <1>6 DEF t

\* The same time of day some days later is that many days later.
LEMMA DaysLater ==
    ASSUME NEW t \in Int, NEW k \in Int, NEW m \in Minute
    PROVE  AtTime(t + k * DayLen, m) = AtTime(t, m) + k * DayLen
<1> DEFINE d == t \div DayLen
           r == t % DayLen
<1>1. d \in Int /\ r \in Minute /\ t = DayLen * d + r
  BY DivisionByDay DEF Minute
<1> HIDE DEF d, r
<1>2. t + k * DayLen = DayLen * (d + k) + r
  BY <1>1, DayLenAssumption DEF Minute
<1>3. (DayLen * (d + k) + r) % DayLen = r
  BY <1>1, DayIsUnique
<1>4. (t + k * DayLen) % DayLen = t % DayLen
  BY <1>2, <1>3 DEF r
<1>5. t % DayLen \in Int /\ m \in Int /\ k * DayLen \in Int
  BY DivisionByDay, DayLenAssumption DEF Minute
<1> QED
  BY <1>4, <1>5 DEF AtTime

\* days_to_add takes back at most six of the seven days of a weekly interval.
LEMMA WeekdayStep ==
    ASSUME NEW t \in Int, NEW w \in Weekdays
    PROVE  /\ w - Weekday(t) \in Int
           /\ (w - Weekday(t)) * DayLen >= -6 * DayLen
<1>1. Weekday(t) \in 0 .. 6
  BY DivisionByDay DEF Weekday
<1> DEFINE k == w - Weekday(t)
<1>2. k \in Int /\ k >= -6
  BY <1>1 DEF Weekdays
<1> HIDE DEF k
<1>3. k * DayLen \in Int /\ k * DayLen >= (-6) * DayLen
  BY <1>2, DayLenAssumption
<1> QED
  BY <1>2, <1>3, DayLenAssumption DEF k

\* ... and moves forward by at most six days.
LEMMA WeekdayStepUp ==
    ASSUME NEW t \in Int, NEW w \in Weekdays
    PROVE  (w - Weekday(t)) * DayLen <= 6 * DayLen
<1>1. Weekday(t) \in 0 .. 6
  BY DivisionByDay DEF Weekday
<1> DEFINE k == w - Weekday(t)
<1>2. k \in Int /\ k <= 6
  BY <1>1 DEF Weekdays
<1> HIDE DEF k
<1>3. k * DayLen <= 6 * DayLen
  BY <1>2, DayLenAssumption
<1> QED
  BY <1>3 DEF k

(***************************************************************************)
(* The occurrence of the time of day that an execution is counted for: the *)
(* last one that is not after it.                                          *)
(***************************************************************************)
Occurrence(t, m) == IF AtTime(t, m) > t THEN AtTime(t, m) - DayLen ELSE AtTime(t, m)

\* It is less than a day before the execution, and at the time of day.
LEMMA OccurrenceOfDay ==
    ASSUME NEW t \in Int, NEW m \in Minute
    PROVE  /\ Occurrence(t, m) \in Int
           /\ Occurrence(t, m) <= t
           /\ t < Occurrence(t, m) + DayLen
           /\ \E d \in Int : Occurrence(t, m) = DayLen * d + m
<1> DEFINE d == t \div DayLen
           r == t % DayLen
<1>1. d \in Int /\ r \in Int /\ 0 <= r /\ r < DayLen /\ t = DayLen * d + r
  BY DivisionByDay, DayLenAssumption
<1>2. AtTime(t, m) = t - r + m
  BY DEF AtTime
<1>3. m \in Int /\ 0 <= m /\ m < DayLen
  BY DayLenAssumption DEF Minute
<1> HIDE DEF d, r
<1>4. AtTime(t, m) = DayLen * d + m
  BY <1>1, <1>2, <1>3, DayLenAssumption
<1>5. /\ AtTime(t, m) \in Int /\ AtTime(t, m) < t + DayLen /\ t - DayLen < AtTime(t, m)
  BY AtTimeSameDay
<1>6. /\ Occurrence(t, m) \in Int
      /\ Occurrence(t, m) <= t
      /\ t < Occurrence(t, m) + DayLen
  BY <1>5, DayLenAssumption DEF Occurrence
<1>7. CASE AtTime(t, m) > t
  <2>1. DayLen * (d - 1) = DayLen * d - DayLen /\ DayLen * d \in Int
    BY <1>1, DayLenAssumption
  <2>2. Occurrence(t, m) = (DayLen * d + m) - DayLen
    BY <1>4, <1>7 DEF Occurrence
  <2>3. (DayLen * d + m) - DayLen = DayLen * d - DayLen + m
    BY <1>3, <2>1, DayLenAssumption
  <2>4. Occurrence(t, m) = DayLen * (d - 1) + m
    BY <2>1, <2>2, <2>3
  <2>5. d - 1 \in Int
    BY <1>1
  <2> QED
    BY <1>6, <2>4, <2>5
<1>8. CASE ~(AtTime(t, m) > t)
  <2>1. Occurrence(t, m) = DayLen * d + m
    BY <1>4, <1>8 DEF Occurrence
  <2> QED
    BY <1>1, <1>6, <2>1
<1> QED
  BY <1>7, <1>8

\* days_to_add, the days added to reach the day of the week.
DaysAdded(t, s) ==
    IF s.day_of_week = None THEN 0 ELSE s.day_of_week - Weekday(AtTime(t, s.time))

(***************************************************************************)
(* With an interval of whole days the next iteration is the interval and   *)
(* the days added after the occurrence that was counted.                   *)
(***************************************************************************)
LEMMA NextIterationInDays ==
    ASSUME NEW s \in ScheduleType, NEW t \in Int, s.time # None, s.interval % DayLen = 0
    PROVE  /\ DaysAdded(t, s) \in Int
           /\ PlainNextIteration(t, s)
                 = Occurrence(t, s.time) + s.interval + DaysAdded(t, s) * DayLen
<1> DEFINE m       == s.time
           counted == IF AtTime(t, m) > t THEN AtTime(t, m) - DayLen ELSE t
           days    == DaysAdded(t, s)
           weeks   == s.interval \div DayLen
<1>1. m \in Minute /\ s.interval \in Nat /\ s.day_of_week \in Weekdays \cup {None}
  BY DEF ScheduleType
<1>2. AtTime(t, m) \in Int /\ counted \in Int
  BY <1>1, AtTimeSameDay, DayLenAssumption
<1>3. days \in Int
  <2>1. CASE s.day_of_week = None
    BY <2>1 DEF DaysAdded
  <2>2. CASE s.day_of_week # None
    <3>1. s.day_of_week - Weekday(AtTime(t, m)) \in Int
      BY <1>1, <1>2, <2>2, WeekdayStep
    <3> QED
      BY <2>2, <3>1 DEF DaysAdded
  <2> QED
    BY <2>1, <2>2
<1>4. weeks \in Int /\ s.interval = DayLen * weeks + 0
  BY <1>1, DivisionByDay
<1>5. PlainNextIteration(t, s) = AtTime(counted + s.interval + days * DayLen, m)
  BY DEF PlainNextIteration, DaysAdded
<1>6. AtTime(counted, m) = Occurrence(t, m)
  <2>1. CASE AtTime(t, m) > t
    <3>1. counted = AtTime(t, m) + (-1) * DayLen
      BY <1>2, <2>1, DayLenAssumption
    <3>2. AtTime(AtTime(t, m), m) = AtTime(t, m)
      <4>1. PICK e \in Int : Occurrence(t, m) = DayLen * e + m
        BY <1>1, OccurrenceOfDay
      <4>2. AtTime(t, m) = DayLen * (e + 1) + m
        <5>1. AtTime(t, m) - DayLen = DayLen * e + m
          BY <2>1, <4>1 DEF Occurrence
        <5>2. DayLen * (e + 1) = DayLen * e + DayLen
          BY DayLenAssumption
        <5>3. DayLen * e \in Int /\ m \in Int
          BY <1>1, DayLenAssumption DEF Minute
        <5>4. AtTime(t, m) = DayLen * e + DayLen + m
          BY <1>2, <5>1, <5>3, DayLenAssumption
        <5> QED
          BY <5>2, <5>4
      <4>3. AtTime(t, m) % DayLen = m
        BY <1>1, <4>1, <4>2, DayIsUnique
      <4> QED
        BY <1>1, <1>2, <4>3 DEF AtTime, Minute
    <3>3. AtTime(AtTime(t, m) + (-1) * DayLen, m) = AtTime(AtTime(t, m), m) + (-1) * DayLen
      BY <1>1, <1>2, DaysLater
    <3>4. AtTime(counted, m) = AtTime(t, m) + (-1) * DayLen
      BY <3>1, <3>2, <3>3
    <3>5. AtTime(t, m) + (-1) * DayLen = AtTime(t, m) - DayLen
      BY <1>2, DayLenAssumption
    <3> QED
      BY <2>1, <3>4, <3>5 DEF Occurrence
  <2>2. CASE ~(AtTime(t, m) > t)
    BY <2>2 DEF Occurrence
  <2> QED
    BY <2>1, <2>2
<1> HIDE DEF counted, weeks, days
<1>7. counted + s.interval + days * DayLen = counted + (weeks + days) * DayLen
  <2>1. (weeks + days) * DayLen = DayLen * weeks + days * DayLen
    BY <1>3, <1>4, DayLenAssumption
  <2> QED
    BY <1>2, <1>3, <1>4, <2>1, DayLenAssumption
<1>8. AtTime(counted + (weeks + days) * DayLen, m) = AtTime(counted, m) + (weeks + days) * DayLen
  BY <1>1, <1>2, <1>3, <1>4, DaysLater
<1>9. Occurrence(t, m) \in Int
  BY <1>1, OccurrenceOfDay
<1>10. Occurrence(t, m) + (weeks + days) * DayLen = Occurrence(t, m) + s.interval + days * DayLen
  <2>1. (weeks + days) * DayLen = DayLen * weeks + days * DayLen
    BY <1>3, <1>4, DayLenAssumption
  <2> QED
    BY <1>3, <1>4, <1>9, <2>1, DayLenAssumption
<1>11. PlainNextIteration(t, s) = Occurrence(t, m) + s.interval + days * DayLen
  BY <1>5, <1>6, <1>7, <1>8, <1>10
<1> QED
  BY <1>3, <1>11 DEF days

\* The next iteration is at most the interval, and six days for the day of the week, away.
LEMMA NextIterationNotLate ==
    ASSUME NEW s \in ScheduleType, NEW t \in Nat,
           s.time # None => s.interval % DayLen = 0
    PROVE  PlainNextIteration(t, s)
             <= t + s.interval + (IF s.day_of_week = None THEN 0 ELSE 6 * DayLen)
<1>0. /\ s.interval \in Nat
      /\ s.time \in Minute \cup {None}
      /\ s.day_of_week \in Weekdays \cup {None}
      /\ s.day_of_week # None => s.time # None
  BY DEF ScheduleType
<1>1. CASE s.time = None
  BY <1>0, <1>1 DEF PlainNextIteration
<1>2. CASE s.time # None
  <2>1. s.time \in Minute
    BY <1>0, <1>2
  <2>2. Occurrence(t, s.time) \in Int /\ Occurrence(t, s.time) <= t
    BY <2>1, OccurrenceOfDay
  <2>3. /\ DaysAdded(t, s) \in Int
        /\ PlainNextIteration(t, s)
              = Occurrence(t, s.time) + s.interval + DaysAdded(t, s) * DayLen
    BY <1>2, NextIterationInDays
  <2>4. DaysAdded(t, s) * DayLen <= (IF s.day_of_week = None THEN 0 ELSE 6 * DayLen)
    <3>1. CASE s.day_of_week = None
      BY <3>1, DayLenAssumption DEF DaysAdded
    <3>2. CASE s.day_of_week # None
      <4>1. AtTime(t, s.time) \in Int /\ s.day_of_week \in Weekdays
        BY <1>0, <2>1, <3>2, AtTimeSameDay
      <4> QED
        BY <3>2, <4>1, WeekdayStepUp DEF DaysAdded
    <3> QED
      BY <3>1, <3>2
  <2>5. DaysAdded(t, s) * DayLen \in Int
    BY <2>3, DayLenAssumption
  <2> QED
    BY <1>0, <2>2, <2>3, <2>4, <2>5, DayLenAssumption
<1> QED
  BY <1>1, <1>2

\* Without a day of the week it is more than the interval, less a day, away.
LEMMA NextIterationNotSoon ==
    ASSUME NEW s \in ScheduleType, NEW t \in Nat, s.day_of_week = None,
           s.time # None => s.interval % DayLen = 0
    PROVE  PlainNextIteration(t, s)
             >= t + s.interval - (IF s.time = None THEN 0 ELSE DayLen)
<1>0. s.interval \in Nat /\ s.time \in Minute \cup {None}
  BY DEF ScheduleType
<1>1. CASE s.time = None
  BY <1>0, <1>1 DEF PlainNextIteration
<1>2. CASE s.time # None
  <2>1. s.time \in Minute
    BY <1>0, <1>2
  <2>2. Occurrence(t, s.time) \in Int /\ t < Occurrence(t, s.time) + DayLen
    BY <2>1, OccurrenceOfDay
  <2>3. PlainNextIteration(t, s) = Occurrence(t, s.time) + s.interval
    <3>1. DaysAdded(t, s) = 0
      BY DEF DaysAdded
    <3> QED
      BY <1>0, <1>2, <2>2, <3>1, NextIterationInDays, DayLenAssumption
  <2> QED
    BY <1>0, <1>2, <2>2, <2>3, DayLenAssumption
<1> QED
  BY <1>1, <1>2

\* The next iteration of a daily schedule is the first occurrence after the execution.
LEMMA NextIterationIsNextOccurrence ==
    ASSUME NEW s \in ScheduleType, NEW t \in Nat, NEW u \in Int,
           s.time # None, s.day_of_week = None, s.interval = DayLen,
           s.interval % DayLen = 0, u > t, u % DayLen = s.time
    PROVE  PlainNextIteration(t, s) <= u
<1>1. s.time \in Minute
  BY DEF ScheduleType
<1>2. PICK d \in Int : Occurrence(t, s.time) = DayLen * d + s.time
  BY <1>1, OccurrenceOfDay
<1>3. Occurrence(t, s.time) \in Int /\ Occurrence(t, s.time) <= t
  BY <1>1, OccurrenceOfDay
<1>4. PlainNextIteration(t, s) = Occurrence(t, s.time) + DayLen
  <2>1. DaysAdded(t, s) = 0
    BY DEF DaysAdded
  <2> QED
    BY <1>3, <2>1, NextIterationInDays, DayLenAssumption
<1> DEFINE e == u \div DayLen
<1>5. e \in Int /\ u = DayLen * e + s.time
  BY DivisionByDay
<1> HIDE DEF e
<1>6. DayLen * d < DayLen * e
  BY <1>1, <1>2, <1>3, <1>5, DayLenAssumption DEF Minute
<1>7. DayLen * d + DayLen <= DayLen * e
  BY <1>5, <1>6, WholeDaysApart
<1> QED
  BY <1>1, <1>2, <1>3, <1>4, <1>5, <1>7, DayLenAssumption DEF Minute

(***************************************************************************)
(* The next iteration after an execution is not before that execution,     *)
(* whatever the schedule.                                                  *)
(***************************************************************************)
LEMMA NextIterationNotEarlier ==
    ASSUME NEW s \in ScheduleType, NEW t \in Nat
    PROVE  PlainNextIteration(t, s) \in Int /\ PlainNextIteration(t, s) >= t
<1>0. /\ s.interval \in Nat
      /\ s.time \in Minute \cup {None}
      /\ s.day_of_week \in Weekdays \cup {None}
      /\ s.time # None => s.interval >= DayLen
      /\ s.day_of_week # None => s.interval >= WeekLen
  BY DEF ScheduleType
<1>1. CASE s.time = None
  BY <1>0, <1>1 DEF PlainNextIteration
<1>2. CASE s.time # None
  <2> DEFINE normalized == AtTime(t, s.time)
             counted    == IF normalized > t THEN normalized - DayLen ELSE t
             days       == IF s.day_of_week = None THEN 0
                           ELSE s.day_of_week - Weekday(normalized)
             moved      == counted + s.interval + days * DayLen
  <2>1. s.time \in Minute
    BY <1>0, <1>2
  <2>2. normalized \in Int /\ counted \in Int
    BY <2>1, AtTimeSameDay, DayLenAssumption
  <2>3. days * DayLen \in Int /\ s.interval + days * DayLen >= DayLen
    <3>1. CASE s.day_of_week = None
      BY <3>1, <1>0, <1>2, DayLenAssumption
    <3>2. CASE s.day_of_week # None
      <4>1. s.day_of_week \in Weekdays
        BY <3>2, <1>0
      <4>2. days = s.day_of_week - Weekday(normalized)
        BY <3>2
      <4>3. days \in Int /\ days * DayLen >= -6 * DayLen
        BY <4>1, <4>2, <2>2, WeekdayStep
      <4>4. s.interval >= 7 * DayLen
        BY <3>2, <1>0 DEF WeekLen
      <4>5. days * DayLen \in Int
        BY <4>3, DayLenAssumption
      <4> HIDE DEF days
      <4> QED
        BY <4>3, <4>4, <4>5, <1>0, DayLenAssumption
    <3> QED
      BY <3>1, <3>2
  <2>4. moved \in Int /\ moved >= counted + DayLen
    <3> HIDE DEF days, counted
    <3> QED
      BY <2>2, <2>3, <1>0, DayLenAssumption
  <2>5. PlainNextIteration(t, s) = AtTime(moved, s.time)
    BY <1>2 DEF PlainNextIteration
  <2>6. CASE normalized > t
    <3>1. moved >= normalized
      BY <2>2, <2>4, <2>6, DayLenAssumption
    <3>2. t - (t % DayLen) <= normalized
      BY <2>1, DivisionByDay DEF AtTime, Minute
    <3> HIDE DEF moved
    <3>3. t - (t % DayLen) <= moved - (moved % DayLen)
      <4> HIDE DEF normalized
      <4>1. t - (t % DayLen) \in Int
        BY DivisionByDay
      <4>2. t - (t % DayLen) <= moved
        BY <2>2, <2>4, <3>1, <3>2, <4>1
      <4> QED
        BY <2>4, <4>2, MidnightMonotone
    <3>4. normalized <= AtTime(moved, s.time)
      BY <2>1, <2>4, <3>3, DivisionByDay DEF AtTime, Minute
    <3> QED
      BY <2>1, <2>2, <2>4, <2>5, <2>6, <3>4, AtTimeSameDay
  <2>7. CASE ~(normalized > t)
    <3>1. moved >= t + DayLen
      BY <2>4, <2>7
    <3> HIDE DEF moved
    <3>2. AtTime(moved, s.time) \in Int /\ moved - DayLen < AtTime(moved, s.time)
      BY <2>1, <2>4, AtTimeSameDay
    <3> QED
      BY <2>4, <2>5, <3>1, <3>2, DayLenAssumption
  <2> QED
    BY <2>6, <2>7
<1> QED
  BY <1>1, <1>2

\* Nothing that has not failed is due at the moment of its own latest execution.
LEMMA NotDueAtOnce ==
    ASSUME NEW s \in ScheduleType, NEW t \in Nat
    PROVE  ~ShouldScheduleNext(t, t, s, 0)
  BY NextIterationNotEarlier DEF ShouldScheduleNext, Backoff
-----------------------------------------------------------------------------
(* Theorems about the life of a scheduled query *)

(***************************************************************************)
(* The inductive invariant: the types, and a query that was never executed *)
(* has no failures, because only what is due can fail.                     *)
(***************************************************************************)
NeverRunHasNoFailures == last = None => failures = 0
IInv == TypeOK /\ NeverRunHasNoFailures

LEMMA NeverRunNotDue ==
    ASSUME IInv, last = None, now' \in Nat
    PROVE  ~Due(now')
<1>1. schedule \in ScheduleType
  BY SchedulesAssumption DEF IInv, TypeOK
<1>2. failures = 0
  BY DEF IInv, NeverRunHasNoFailures
<1> QED
  BY <1>1, <1>2, NotDueAtOnce DEF Due

LEMMA WakeType == IInv /\ Wake => now' \in Nat /\ now <= now' /\ schedule' \in Schedules
  BY BoundsAssumption DEF IInv, TypeOK, Wake

LEMMA InitIInv == Init => IInv
  BY DEF Init, IInv, TypeOK, NeverRunHasNoFailures

LEMMA NextIInv == IInv /\ [Next]_vars => IInv'
<1> SUFFICES ASSUME IInv, [Next]_vars PROVE IInv'
  OBVIOUS
<1> USE NoneAssumption DEF IInv, TypeOK, NeverRunHasNoFailures
<1>1. CASE Skip
  BY <1>1, WakeType DEF Skip
<1>2. CASE ScheduledRun
  BY <1>2, WakeType DEF ScheduledRun
<1>3. CASE ScheduledFailure
  <2>1. last # None
    BY <1>3, WakeType, NeverRunNotDue DEF ScheduledFailure
  <2> QED
    BY <1>3, <2>1, WakeType DEF ScheduledFailure
<1>4. CASE UserRun
  BY <1>4 DEF UserRun
<1>5. CASE UNCHANGED vars
  BY <1>5 DEF vars
<1> QED
  BY <1>1, <1>2, <1>3, <1>4, <1>5 DEF Next

\* Type correctness: in particular the latest result is never from the future.
THEOREM TypeCorrect == Spec => []TypeOK
<1>1. IInv => TypeOK
  BY DEF IInv
<1> QED
  BY <1>1, InitIInv, NextIInv, PTL DEF Spec

(***************************************************************************)
(* Whatever the length of the day, the schedule and the wake-ups, a query  *)
(* that was never executed waits for a user: outdated_queries never finds  *)
(* it outdated.                                                            *)
(***************************************************************************)
THEOREM FirstRunNeedsAUser == Spec => FirstRunIsByHand
<1>1. IInv /\ [Next]_vars => [last = None /\ last' # None => UserRun]_vars
  <2> SUFFICES ASSUME IInv, [Next]_vars, last = None, last' # None
               PROVE  UserRun
    OBVIOUS
  <2>1. CASE Skip
    BY <2>1 DEF Skip
  <2>2. CASE ScheduledRun
    BY <2>2, WakeType, NeverRunNotDue DEF ScheduledRun
  <2>3. CASE ScheduledFailure
    BY <2>3 DEF ScheduledFailure
  <2>4. CASE UserRun
    BY <2>4
  <2>5. CASE UNCHANGED vars
    BY <2>5 DEF vars
  <2> QED
    BY <2>1, <2>2, <2>3, <2>4, <2>5 DEF Next
<1> QED
  BY <1>1, InitIInv, NextIInv, PTL DEF Spec, FirstRunIsByHand
-----------------------------------------------------------------------------
(* A query that does not fail is executed in time *)

(***************************************************************************)
(* The strengthening: the task has not yet woken up after the moment at    *)
(* which a query that has not failed is due, because the wake-up at which  *)
(* it becomes due executes it.                                             *)
(***************************************************************************)
InTime == Healthy => now <= PlainNextIteration(last, schedule)
TimelyInv == IInv /\ InTime

LEMMA ScheduleKnown ==
    ASSUME IInv
    PROVE  /\ schedule \in ScheduleType
           /\ schedule.time # None => schedule.interval % DayLen = 0
BY SchedulesAssumption, WholeDaysAssumption DEF IInv, TypeOK

LEMMA InitInTime == Init => TimelyInv
BY InitIInv DEF Init, TimelyInv, InTime, Healthy

LEMMA NextInTime == TimelyInv /\ [Next]_vars => TimelyInv'
<1> SUFFICES ASSUME TimelyInv, [Next]_vars PROVE TimelyInv'
  OBVIOUS
<1>1. IInv /\ IInv'
  BY NextIInv DEF TimelyInv
<1>2. InTime'
  <2>1. CASE Skip
    <3> SUFFICES ASSUME Healthy' PROVE now' <= PlainNextIteration(last', schedule')
      BY DEF InTime
    <3>1. last \in Nat /\ failures = 0 /\ last # None /\ last' = last /\ schedule' = schedule
      BY <1>1, <2>1 DEF Skip, Wake, Healthy, IInv, TypeOK
    <3>2. PlainNextIteration(last, schedule) \in Int
      BY <1>1, <3>1, ScheduleKnown, NextIterationNotEarlier
    <3>3. now' \in Nat
      BY <1>1, <2>1, WakeType DEF Skip
    <3>4. ~(now' > PlainNextIteration(last, schedule) + 0)
      BY <2>1, <3>1 DEF Skip, Due, ShouldScheduleNext, Backoff
    <3> QED
      BY <3>1, <3>2, <3>3, <3>4
  <2>2. CASE ScheduledRun
    <3>1. now' \in Nat /\ last' = now' /\ schedule' = schedule
      BY <1>1, <2>2, WakeType DEF ScheduledRun, Wake
    <3>2. PlainNextIteration(now', schedule) >= now'
          /\ PlainNextIteration(now', schedule) \in Int
      BY <1>1, <3>1, ScheduleKnown, NextIterationNotEarlier
    <3> QED
      BY <3>1, <3>2 DEF InTime
  <2>3. CASE ScheduledFailure
    BY <1>1, <2>3 DEF ScheduledFailure, InTime, Healthy, IInv, TypeOK
  <2>4. CASE UserRun
    <3>1. now \in Nat /\ now' = now /\ last' = now /\ schedule' = schedule
      BY <1>1, <2>4 DEF UserRun, IInv, TypeOK
    <3>2. PlainNextIteration(now, schedule) >= now /\ PlainNextIteration(now, schedule) \in Int
      BY <1>1, <3>1, ScheduleKnown, NextIterationNotEarlier
    <3> QED
      BY <3>1, <3>2 DEF InTime
  <2>5. CASE UNCHANGED vars
    BY <2>5 DEF vars, TimelyInv, InTime, Healthy
  <2> QED
    BY <2>1, <2>2, <2>3, <2>4, <2>5 DEF Next
<1> QED
  BY <1>1, <1>2 DEF TimelyInv

\* Up to the next iteration of a daily schedule no occurrence has gone by.
LEMMA InTimeMissesNoDay == TimelyInv => NoDayMissed
<1> SUFFICES ASSUME TimelyInv, Healthy, Daily, schedule.interval = DayLen,
                    NEW t \in (last + 1) .. (now - 1), t % DayLen = schedule.time
             PROVE  FALSE
  BY DEF NoDayMissed
<1>1. IInv /\ last \in Nat /\ now \in Nat
  BY DEF TimelyInv, IInv, TypeOK, Healthy
<1>2. schedule \in ScheduleType /\ schedule.time # None /\ schedule.day_of_week = None
  BY <1>1, ScheduleKnown DEF Daily
<1>3. schedule.interval % DayLen = 0
  BY <1>1, <1>2, ScheduleKnown
<1>4. t \in Int /\ t > last /\ t < now
  BY <1>1
<1>5. PlainNextIteration(last, schedule) <= t
  BY <1>1, <1>2, <1>3, <1>4, NextIterationIsNextOccurrence
<1>6. PlainNextIteration(last, schedule) \in Int
  BY <1>1, <1>2, NextIterationNotEarlier
<1> QED
  BY <1>1, <1>4, <1>5, <1>6 DEF TimelyInv, InTime

\* ... and the latest result is not too old.
LEMMA InTimeKeepsFresh == TimelyInv => NeverTooStale
<1> SUFFICES ASSUME TimelyInv, Healthy
             PROVE  now - last <= schedule.interval
                       + (IF schedule.day_of_week = None THEN 0 ELSE 6 * DayLen)
  BY DEF NeverTooStale
<1>1. IInv /\ last \in Nat /\ now \in Nat
  BY DEF TimelyInv, IInv, TypeOK, Healthy
<1>2. schedule \in ScheduleType /\ schedule.interval \in Nat
  BY <1>1, ScheduleKnown DEF ScheduleType
<1>3. PlainNextIteration(last, schedule) \in Int
  BY <1>1, <1>2, NextIterationNotEarlier
<1>4. PlainNextIteration(last, schedule)
        <= last + schedule.interval + (IF schedule.day_of_week = None THEN 0 ELSE 6 * DayLen)
  BY <1>1, <1>2, ScheduleKnown, NextIterationNotLate
<1>5. now <= PlainNextIteration(last, schedule)
  BY DEF TimelyInv, InTime
<1> QED
  BY <1>1, <1>2, <1>3, <1>4, <1>5, DayLenAssumption

(***************************************************************************)
(* Whatever the length of the day, the schedules of whole days and the     *)
(* times at which the task wakes up, a query that does not fail misses no  *)
(* day of a daily schedule, and its latest result never gets too old.      *)
(***************************************************************************)
THEOREM ExecutedOnTime == Spec => []RunsOnTime
<1>1. TimelyInv => RunsOnTime
  BY InTimeMissesNoDay, InTimeKeepsFresh DEF RunsOnTime
<1> QED
  BY <1>1, InitInTime, NextInTime, PTL DEF Spec

(***************************************************************************)
(* The scheduler never executes a query before its interval, less the day  *)
(* an execution may be counted for the day before, and the back-off have   *)
(* gone by.                                                                *)
(***************************************************************************)
THEOREM NotExecutedTooSoon == Spec => NeverTooSoon
<1> DEFINE A == ScheduledRun /\ schedule.day_of_week = None =>
                  now' - last > schedule.interval
                                - (IF schedule.time = None THEN 0 ELSE DayLen)
                                + (IF failures = 0 THEN 0 ELSE 2 ^ failures)
<1>1. IInv /\ [Next]_vars => [A]_vars
  <2> SUFFICES ASSUME IInv, ScheduledRun, schedule.day_of_week = None
               PROVE  now' - last > schedule.interval
                                    - (IF schedule.time = None THEN 0 ELSE DayLen)
                                    + Backoff(failures)
    BY DEF Backoff
  <2>1. now' \in Nat /\ failures \in Nat
    BY WakeType DEF ScheduledRun, IInv, TypeOK
  <2>2. last \in Nat /\ last # None
    BY <2>1, NeverRunNotDue, NoneAssumption DEF ScheduledRun, IInv, TypeOK
  <2>3. schedule \in ScheduleType /\ schedule.interval \in Nat
    BY ScheduleKnown DEF ScheduleType
  <2>4. Backoff(failures) \in Int
    <3>1. failures # 0 => 2 ^ failures \in Int
      BY <2>1, SMT
    <3> QED
      BY <3>1 DEF Backoff
  <2>5. PlainNextIteration(last, schedule) \in Int
    BY <2>2, <2>3, NextIterationNotEarlier
  <2>6. now' > PlainNextIteration(last, schedule) + Backoff(failures)
    BY <2>2 DEF ScheduledRun, Due, ShouldScheduleNext
  <2>7. PlainNextIteration(last, schedule)
          >= last + schedule.interval - (IF schedule.time = None THEN 0 ELSE DayLen)
    BY <2>2, <2>3, ScheduleKnown, NextIterationNotSoon
  <2> HIDE DEF A
  <2> QED
    BY <2>1, <2>2, <2>3, <2>4, <2>5, <2>6, <2>7, DayLenAssumption
<1> QED
  BY <1>1, InitIInv, NextIInv, PTL DEF Spec, NeverTooSoon
=============================================================================
