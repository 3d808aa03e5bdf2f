SPECIFICATION Spec
CONSTANTS
    u1 = u1
    u2 = u2
    r = r
    User = {u1, u2}
    Ops <- StopOps
    MaxRestarts = 1
    MaxLives = 2
    Restarter = r
INVARIANT StopSticks
