\* Two slots and three jobs, each with up to two calls at a time; one upset per
\* run: a crash, a row taken from under its call, a database error, a false alarm.
SPECIFICATION FairSpec
CONSTANTS
    Jobs = {j1, j2, j3}
    Calls = {c1, c2}
    Concurrency = 2
    None = None
    MaxUpsets = 1
CHECK_DEADLOCK FALSE
INVARIANTS TypeOK  ClaimsAreLaunched DrainIsComplete
PROPERTIES GoneLeavesNothing
