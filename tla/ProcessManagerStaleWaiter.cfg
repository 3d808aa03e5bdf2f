SPECIFICATION Spec
CONSTANTS
    p1 = p1
    p2 = p2
    p3 = p3
    c1 = c1
    c2 = c2
    c3 = c3
    Id = {"web"}
    Path = {"A"}
    Proc = {p1, p2}
    KeyOf <- OneKey
    Caller = {c1, c2}
    Cancellable = {}
    Ops <- ReuseOps
    HealthOn = FALSE
    NoProc = NoProc
INVARIANTS
    RunningIsTracked
