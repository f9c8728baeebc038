\* One DELETE request against the claimers.
SPECIFICATION Spec
CONSTANTS
    q1 = q1
    q2 = q2
    j1 = j1
    j2 = j2
    j3 = j3
    Queues = {q1}
    Jobs = {j1, j2}
    Workers = {w1, w2}
    Watched = {j1}
    QueueOf <- OneQueue
    None = None
    Capacity = 1
    Limits = {1, 2}
    Rates = {None}
    MaxUpsets = 1
SYMMETRY Symmetry
CHECK_DEADLOCK FALSE
PROPERTIES DeleteSparesActive
