SPECIFICATION Spec
CONSTANTS
    None = None
    PIDs = {p1, p2, p3}
    Keys = {k1}
    MaxBirths = 4
    MaxCrashes = 0
PROPERTY PostWaitKillsOwnOnly
CHECK_DEADLOCK FALSE
