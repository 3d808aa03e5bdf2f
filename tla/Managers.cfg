SPECIFICATION MCSpec
CONSTANTS
    c1 = c1
    c2 = c2
    c3 = c3
    Caller = {c1, c2, c3}
    Proc = {p1, p2}
    Web = Web
    A = A
    NoProc = NoProc
    Sender = {s1}
    Canceller = {}
    Worker = {w1, w2}
    MaxRetries = 2
    MaxStarts = 2
    NoTask = NoTask
INVARIANTS
    NoConcurrentDelivery
    StopDrains
PROPERTIES
    TasksResolve
    StoppingEnds
    ShutdownReturns
    CallsReturn
