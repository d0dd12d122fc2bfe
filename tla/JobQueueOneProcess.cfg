\* Two remote collectors whose calls all run in the server process.
SPECIFICATION Spec
CONSTANTS
    w1 = w1
    w2 = w2
    server = server
    local = local
    name1 = name1
    name2 = name2
    None = None
    k1 = k1
    k2 = k2
    Workers = {w1, w2}
    Processes = {server, local}
    Owners = {name1, name2}
    ProcOf <- OneProcess
    OwnerOf <- DistinctNames
    MaxJobs = 2
    Keys = {k1, k2}
    Priorities = {1}
    MaxAttempts = 2
    LeaseLimit = 2
    LeaseTime = 2
    RetryDelay = 1
    MaxClock = 3
INVARIANTS
    TypeOK
    NoDoubleLease
    RetryBudget
PROPERTIES
    SafeReassignment
    ImplementsLifecycle
SYMMETRY KeySymmetry
