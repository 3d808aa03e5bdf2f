SPECIFICATION MCSpec
CONSTANTS
    Requests = {r1}
    MaxRequests = 1
    MaxConns = 3
    MaxFaults = 1
    MaxAttempts = 2
    MaxFailures = 2
    Clients = {k1, k2}
    None = None
    MaxClients = 1
    MaxSessions = 1
    u1 = u1
    u2 = u2
    Callers = {u1, u2, u3}
    MaxEpochs = 2
    MaxCommands = 1
    MaxSubFaults = 1
INVARIANTS
    TypesOK
    StoppedIsQuiet
    OneHeartbeat
PROPERTIES
    StopsReturn
    CloseCleansUp
    Recovers
CHECK_DEADLOCK FALSE
