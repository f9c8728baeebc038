\* Two queues and two projects, two polls in flight, one change of each; one upset
\* per run: a failed request, an expired token, another tab, another user.
SPECIFICATION FairSpec
CONSTANTS
    Queues = {q1, q2}
    Projects = {p1, p2}
    MaxPolls = 2
    None = None
    MaxWrites = 1
    MaxUpsets = 1
CHECK_DEADLOCK FALSE
INVARIANTS TypeOK ShownIsCurrent FormFitsQueue KeyFitsProject

PROPERTIES PageSettles
