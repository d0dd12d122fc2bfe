\* A task beside one the server has no key for, collected by hand as well.
SPECIFICATION FairSpec
CONSTANTS
    NumTasks = 2
    ByHand = {2}
    Enabled = {2}
    MaxAttempts = 2
    JobLimit = 2
    MaxFaults = 2
INVARIANT
    CompletesSucceededRun
PROPERTIES
    KeepsCollecting
    RunsAreClosed
