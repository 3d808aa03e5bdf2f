SPECIFICATION Spec
CONSTANTS
    s1 = s1
    s2 = s2
    c1 = c1
    w1 = w1
    w2 = w2
    Sender = {s1}
    Canceller = {c1}
    Worker = {w1}
    MaxRetries = 2
    MaxStarts = 1
    NoTask = NoTask
INVARIANT CancelledIsForgotten
