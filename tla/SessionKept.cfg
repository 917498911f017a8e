\* One of two users changes the own address
CONSTANTS
    Clients = {c1, c2}
    Fields = {text, options}
    Values = {0, 1}
    Kinds <- BothKinds
    MaxVersion = 3
    Unseen = Unseen
    Holders = {h1, h2}
    Founder = h1
    Home = "x"
    Spellings = {"x", "Y", "y"}
    Lower <- LowerCase
    Domestic = {"y"}
    Providers = {"google", "saml", "ldap", "remote_user", "jwt"}
    Browsers = {c1, c2}
    Requests = {r1, r2}
    MaxChanges = 2
    Texts = {q1, q2}
    Views = {v1, v2}
    Tiles = {w1}
    Bells = {a1}
    Clerks = {c1, c2}
    Ids = {1, 2, 3}
    Looks <- ThreeLooks
    Listings <- AllListings
    PageSizes = {1, 2}
    Moments = {0, 1}
    MaxWrites = 2
SPECIFICATION WorkspaceSpec
INVARIANT ThisSessionStays
CHECK_DEADLOCK FALSE
