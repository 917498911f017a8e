CONSTANTS
    Count = 2
    k1 = k1
    k2 = k2
    Keys = {k1, k2}
    Texts <- MCTexts
    Threads = {p1}
    Saved = {"set", "faulty", "null"}
    MaxQueued = 1
    MaxTrouble = 1
SPECIFICATION FairSpec
INVARIANTS
    TypeOK
    SavedScheduleStays
PROPERTIES
    RepeatedExecution
    FaultyIsDisabled
