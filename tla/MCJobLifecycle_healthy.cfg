\* No live process stalls past a lease; processes still crash, stop and lose
\* answers, and one worker survives (MaxFaults is below the number of workers).
SPECIFICATION FairSpec
CONSTANTS
    Jobs = {j1, j2}
    Workers = {w1, w2}
    Pipes = {p1, p2}
    None = None
    MaxAttemptsCap = 2
    InitialMax = {1, 2}
    ExtraAttempts = {1}
    Freezes = FALSE
    MaxFaults = 1
CHECK_DEADLOCK FALSE
INVARIANTS OneExecutor AttemptsCountConcluded WithinBudget ResultOfLastAttempt
PROPERTIES LateResultDiscarded HealthyJobKept JobConcludes
