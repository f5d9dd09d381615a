CONSTANTS
    w1 = w1
    w2 = w2
    w3 = w3
    c1 = c1
    c2 = c2
    NoTask = NoTask
    Workers = {w1, w2, w3}
    Clients = {c1, c2}
    MaxTasks = 4
    Callers = {w1, w2, w3}
    MaxFailures = 1
    Nobody = Nobody
SPECIFICATION SpecAll
INVARIANTS
    TasksSafe
    InstanceSound
PROPERTIES
    PoolProgress
    EveryInstanceCallEnds
CHECK_DEADLOCK FALSE
