SPECIFICATION FairSpec
CONSTANTS
    u1 = u1
    u2 = u2
    r = r
    User = {u1, u2}
    Ops <- MixedOps
    MaxRestarts = 1
    MaxLives = 2
    Restarter = r
INVARIANTS
    TypeOK
    OneInstance
    NoLeakedConn
PROPERTIES
    UnregisteredIsGone
    StoppedIsGone
    StoppingEnds
    RestartResolves
