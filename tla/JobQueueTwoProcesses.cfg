\* A collector behind the server and a worker process beside it.
SPECIFICATION Spec
CONSTANTS
    w1 = w1
    w2 = w2
    server = server
    local = local
    name1 = name1
    name2 = name2
    None = None
    k1 = k1
    k2 = k2
    Workers = {w1, w2}
    Processes = {server, local}
    Owners = {name1, name2}
    ProcOf <- TwoProcesses
    OwnerOf <- DistinctNames
    MaxJobs = 1
    Keys = {k1, k2}
    Priorities = {1}
    MaxAttempts = 2
    LeaseLimit = 2
    LeaseTime = 2
    RetryDelay = 1
    MaxClock = 3
PROPERTY
    SafeReassignment
