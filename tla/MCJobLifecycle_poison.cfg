\* No crash, no user: workers stall, and nothing else goes wrong.
SPECIFICATION FairSpec
CONSTANTS
    Jobs = {j1}
    Workers = {w1, w2}
    Pipes = {p1, p2}
    None = None
    MaxAttemptsCap = 2
    InitialMax = {2}
    ExtraAttempts = {}
    Freezes = TRUE
    MaxFaults = 0
CHECK_DEADLOCK FALSE
PROPERTIES JobConcludes
