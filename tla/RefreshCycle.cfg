\* Two enabled tasks that share the worker's batches.
SPECIFICATION Spec
CONSTANTS
    NumTasks = 2
    ByHand = {}
    Enabled = {1, 2}
    MaxAttempts = 1
    JobLimit = 2
    MaxFaults = 1
INVARIANTS
    OneActiveJob
    SuccessIsEarned
PROPERTY
    OnlyStalePassLosesSuccess
