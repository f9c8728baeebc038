\* One job, two workers that may stall, crash and stop, two executions in
\* flight: a zombie and its successor, over up to two attempts.  Whatever the
\* workers do, a claim is released.
SPECIFICATION ReaperSpec
CONSTANTS
    Jobs = {j1}
    Workers = {w1, w2}
    Pipes = {p1, p2}
    None = None
    MaxAttemptsCap = 2
    InitialMax = {1}
    ExtraAttempts = {1}
    Freezes = TRUE
    MaxFaults = 1
CHECK_DEADLOCK FALSE
INVARIANTS TypeOK AttemptNumbering RunningIsExecuted ActiveIsRecoverable FailedIsQuiet
PROPERTIES ClaimReleased ExecutionsImmutable ImplementsContract
