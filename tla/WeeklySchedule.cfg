\* A single weekly schedule: Wednesday, minute 1
CONSTANTS
    None = None
    DayLen = 4
    Schedules <- WeeklyOnWednesday
    MaxNow = 40
    MaxSleep = 1
    MaxFailures = 0
SPECIFICATION Spec
INVARIANT NextIterationOnRequestedDay
