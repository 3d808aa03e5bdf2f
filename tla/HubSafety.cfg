SPECIFICATION MCSpec
CONSTANTS
    None = None
    Clients = {c1, c2}
    Daemons = {d1, d2}
    PIDs = {p1, p2, p3}
    MaxCrashes = 1
    MaxStops = 1
    MaxForeign = 1
    MaxAgain = 1
    Keys = {k1}
    MaxBirths = 5
    MaxDaemonCrashes = 2
    MaxRequests = 2
    Closers = {x1}
    Chunks = 2
    MaxLinks = 2
    MaxTicks = 1
    MaxFaults = 1
    Capacity = 3
    MaxPartial = 3
    MaxLines = 2
    MaxStream = 6
    MaxMarkers = 1
    MaxClients = 1
    MaxSessions = 2
SYMMETRY Symmetry
INVARIANTS
    TypesOK
    SettledHubIsFound
    OrphansGone
    AnswersMatch
    OutputIsKept
    SessionsEnd
PROPERTIES
    LoneStartNeverFails
    NoStrangerKilled
CHECK_DEADLOCK FALSE
