SPECIFICATION Spec
CONSTANTS
    p1 = p1
    p2 = p2
    p3 = p3
    c1 = c1
    c2 = c2
    c3 = c3
    Id = {"web"}
    Path = {"A"}
    Proc = {p1, p2}
    KeyOf <- OneKey
    Caller = {c1, c2, c3}
    Cancellable = {c1, c3}
    Ops <- AllOps
    HealthOn = FALSE
    NoProc = NoProc
SYMMETRY ProcSymmetry
INVARIANTS
    DoneClosedOnce
    DoneMeansOver
    ShutdownDrains
