\* No user and no rollback: a job fails within the second it was claimed in.
SPECIFICATION Spec
CONSTANTS
    q1 = q1
    q2 = q2
    j1 = j1
    j2 = j2
    j3 = j3
    Queues = {q1}
    Jobs = {j1, j2}
    Workers = {w1, w2}
    Watched = {j1}
    QueueOf <- OneQueue
    None = None
    Capacity = 1
    Limits = {2}
    Rates = {1}
    MaxUpsets = 0
SYMMETRY Symmetry
CHECK_DEADLOCK FALSE
INVARIANTS RateRespected
