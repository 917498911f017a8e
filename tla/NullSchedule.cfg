\* A user may clear a schedule with the JSON null
CONSTANTS
    Count = 2
    k1 = k1
    k2 = k2
    Keys = {k1, k2}
    Texts <- TwoTexts
    Threads = {p1}
    Saved = {"set", "null"}
    MaxQueued = 1
    MaxTrouble = 0
SPECIFICATION Spec
PROPERTY FaultySkipped
