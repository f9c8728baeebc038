\* No crash, no user: a worker stalls past its lease and then answers.
SPECIFICATION Spec
CONSTANTS
    Jobs = {j1}
    Workers = {w1, w2}
    Pipes = {p1, p2}
    None = None
    MaxAttemptsCap = 2
    InitialMax = {2}
    ExtraAttempts = {}
    Freezes = TRUE
    MaxFaults = 0
SYMMETRY Symmetry
CHECK_DEADLOCK FALSE
PROPERTIES LateResultDiscarded
