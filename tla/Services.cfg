SPECIFICATION Spec
CONSTANTS
    a1 = a1
    d1 = d1
    r1 = r1
    r2 = r2
    r3 = r3
    Nobody = Nobody
    Accounts <- OneAccount
    Addresses <- OneAddress
    Requests <- ThreeRequests
    Limit = 2
    AddressLimit = 4
    u1 = u1
    w1 = w1
    w2 = w2
    Everybody = Everybody
    Users <- OneUser
    Calls <- TwoCalls
    Watched <- AllCodes
    UserLimit = 1
    GlobalLimit = 1
    TestLimit = 1
    ReportLimit = 1
    TransientThreshold = 3
    MaxCount = 2
    MaxFailures = 4
    Scripts <- MCScripts
    Kept = {"keys", "token"}
    MaxKills = 2
    Jobs = {j1, j2}
    Keep = 2
    MaxMinutes = 2
    MaxMishaps = 1
    Handlers = {h1, h2}
    NoHandler = NoHandler
    MaxQueue = 2
    MaxRecords = 3
    MaxRows = 3
    MaxLogged = 6
    MaxTroubles = 2
    Names = {n1, n2}
    Browsers = {b1}
    MaxUsers = 2
    Fields = {s1}
    Secrets = {s1}
    Values = {x1, x2}
    Blank = Blank
    Mask = Mask
    Missing = Missing
    Editors = {e1, e2}
    Shells = {c1}
    MaxGrants = 2
    MaxLosses = 1
INVARIANT ServicesTypeOK
INVARIANT FailuresAreCounted
INVARIANT GuessesAreBounded
INVARIANT BlockStopsAddress
PROPERTY LockedUntilUnlocked
INVARIANT RateIsBounded
INVARIANT BreakerIsHeeded
 
INVARIANT UsableSnapshotStays
INVARIANT CollectorSeesOrder
INVARIANT LogIsKept
INVARIANT AccountsStayApart
INVARIANT OneStopPerGrant
PROPERTY SecretSurvives
