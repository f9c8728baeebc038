\* Three requests at any step of each other. Two projects of one organization are
\* there at the start, a third may be created; the policy r3 and the queue q2 are not
\* there at the start. A batch has two keys, equal or not. Requests stop when all have
\* answered, so the system may end.
SPECIFICATION Spec
CONSTANTS
    u1 = u1
    u2 = u2
    u3 = u3
    p1 = p1
    p2 = p2
    p3 = p3
    r1 = r1
    r2 = r2
    r3 = r3
    q1 = q1
    q2 = q2
    k1 = k1
    k2 = k2
    Users = {u1, u2, u3}
    Projects = {p1, p2, p3}
    OrgOf <- OneOrg
    Staff <- Roster
    Seeded = {p1, p2}
    Requests = {a, b, c}
    None = None
    Policies = {r1, r2, r3}
    Queues = {q1, q2}
    ProjectOf <- Owned
    Keys = {k1, k2}
    Inputs <- Lists
    Delays = {1, 2}
    DefaultRetry <- Platform
    SeededPolicy = r1
    Absent = {r3, q2}
SYMMETRY Symmetry
CHECK_DEADLOCK FALSE
INVARIANTS TypeOK ConfigIsSound SnapshotIsSound SubmittedOnce
PROPERTIES OwnerRowStays
