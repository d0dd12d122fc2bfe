\* A scheduler pass and a worker, nothing failing.
SPECIFICATION Spec
CONSTANTS
    NumTasks = 1
    ByHand = {}
    Enabled = {1}
    MaxAttempts = 1
    JobLimit = 1
    MaxFaults = 0
PROPERTY
    SuccessIsKept
