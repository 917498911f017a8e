CONSTANTS
    Owners = {o1, o2}
    Errors = {e1, e2}
    Reporters = {r1, r2}
    MaxDeaths = 2
    Jobs = {j1, j2}
    JobSources = {s1, s2}
    AnswerLife = 2
    CleanupAge = 3
    MaxDelay = 1
    MaxTime = 5
    DataSourceIds = {d1}
    Blacklisted = {}
    Fetchers = {w1, w2}
    MaxVersion = 2
    MaxFaults = 1
    None = None
    DayLen = 4
    Schedules <- MCSchedules
    MaxNow = 70
    MaxSleep = 6
    MaxFailures = 5
SPECIFICATION BackgroundSpec
INVARIANTS
    BackgroundTypeOK
    ErrorsAccountedFor
    AnnouncedOnce
    FinishedNamesResult
    RunsOnTime
PROPERTIES
    NeverTooSoon
    EveryErrorIsMailed
    PollingEnds
    SchemaFollows
