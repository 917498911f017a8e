CONSTANTS
    a1 = a1
    AlertIds = {a1}
    Condition <- OneCondition
    Rearm <- OneRearm
    Observations <- LowOrHigh
    Subscriptions = {n1, n2}
    Destinations = {h1}
    Checkers = {p1, p2}
    MaxChecks = 2
    MaxMoment = 2
    s1 = s1
    s2 = s2
    s3 = s3
    d1 = d1
    d2 = d2
    k1 = k1
    k2 = k2
    StreamIds = {s1, s2, s3}
    Described <- ThreeStreams
    Sources = {d1, d2}
    Keys = {k1, k2}
    Creators = {p1, p2}
    b1 = b1
    b2 = b2
    b3 = b3
    Dashboards = {b1, b2, b3}
    StemOf <- TwoStems
    SlugOf <- Suffixed
    MaxTries = 3
    Widgets = {w1}
    Queries = {q1}
    ApiKeys = {i1, i2}
    Sharers = {p1, p2}
    Users = {u1, u2}
    Handlers = {p1, p2}
    Syncers = {t1}
    MaxVisits = 2
    People = {u1, u2}
    Workers = {p1, p2}
    m1 = m1
    q1 = q1
    q2 = q2
    Members = {m1}
    Groups = {g1, g2}
    SourceIds = {d1}
    QueryIds = {q1, q2}
    SourceOf <- OneSource
    OwnerOf <- OneOwner
    Drafts = {q2}
    Endpoints = {q1, q2}
    Archived = {q1}
    Admins = {p1, p2}
    MaxTimes = 2
    Grantees = {y1, y2}
    Grantors = {z1, z2}
    Granters = {p1, p2}
    Types = {"pg", "ch"}
    Required <- HostForPg
    Secret <- PasswordOf
    Forms <- ThreeForms
    Changes <- FourChanges
    Defaults <- SettingDefaults
    LocalAddress = "local"
    Editors = {p1, p2}
    Runners = {x1}
    Callers = {v1}
    KeyHolders = {v2}
    Wells = {"d1", "d2"}
    Writings <- TwoWritings
    Fillings <- FiveFillings
    Numerals = {"7"}
    Dates = {"May", "June", "'May'", "'June'"}
    Results = {{"a"}, {"b"}}
    Askers = {x1}
SPECIFICATION Spec
SYMMETRY Symmetry
INVARIANTS
    AdministrationTypeOK
    SubscribersKnow
    EventsReachTheirTable
    SlugNamesOne
    AcceptedStays
    VisitsAccountedFor
    AdminRemains
    MembershipAsDecided
    ListedIsReadable
    GrantsAsDecided
    OptionsAsDecided
    ExecutedAsWritten
PROPERTIES
    RemindersKeepTheirDistance
    CreationHeals
    UnshareCloses
CHECK_DEADLOCK FALSE
