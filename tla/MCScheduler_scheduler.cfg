\* Two processes of which one stays up, one schedule of two expressions, and one
\* editor.
SPECIFICATION FairSpec
CONSTANTS
    Procs = {p1, p2}
    Steady = {p1}
    Tickers = {p1, p2}
    None = None
    Ghost = Ghost
    MaxFaults = 1
    Schedules = {s1}
    Users = {u1}
    Crons = {1, 2}
    NextCronRun <- Every
    Lag = 0
    MaxTime = 2
    MaxEdits = 1
CHECK_DEADLOCK FALSE
INVARIANTS TypeOK OneConnectedLeader OncePerOccurrence NextFitsExpression
PROPERTIES DueIsEnqueued
