\* Two entries about one game, three faults.
SPECIFICATION FairSpec
CONSTANTS
    MaxEntries = 2
    MaxFaults = 3
INVARIANTS
    InSync
    LatestAgrees
    UndoneForCause
PROPERTY
    Drains
