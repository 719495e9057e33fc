SPECIFICATION Spec
CONSTANTS
    a1 = a1
    a2 = a2
    n1 = n1
    n2 = n2
    t1 = t1
    t2 = t2
    w1 = w1
    w2 = w2
    Loop = Loop
    None = None
    Agents = {a1, a2}
    Nodes = {n1, n2}
    NodeOf <- MCNodeOf
    Concurrency <- MCConcurrency
    Tasks = {t1, t2}
    CanHandle <- MCCanHandle
    MaxRetries = 1
    Workers = {w1, w2}
    MaxRequests = 2
    MaxOutages = 1
    Registered = {a1}
INVARIANTS
    OverrunIsBounded
    LoadIsCounted
    TasksKept
SYMMETRY MCSymmetry
CHECK_DEADLOCK FALSE
