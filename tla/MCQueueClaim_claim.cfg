\* Two claimers of one queue with two jobs; the limits change, jobs are put back,
\* claims roll back and the queue is deleted, one of these per run; and what is
\* queued is served.
SPECIFICATION FairSpec
CONSTANTS
    q1 = q1
    q2 = q2
    j1 = j1
    j2 = j2
    j3 = j3
    Queues = {q1}
    Jobs = {j1, j2}
    Workers = {w1, w2}
    Watched = {j1}
    QueueOf <- OneQueue
    None = None
    Capacity = 1
    Limits = {1, 2}
    Rates = {1}
    MaxUpsets = 1
CHECK_DEADLOCK FALSE
PROPERTIES QueuedIsServed
INVARIANTS TypeOK WithinLimit RateKept RowLockedOnce
