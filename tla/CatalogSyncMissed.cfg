\* Steam changes while a pass is under way, nothing fails.
SPECIFICATION Spec
CONSTANTS
    NumApps = 3
    PageSize = 1
    MaxPages = 2
    MaxTime = 3
    MaxBuild = 1
    MaxCrashes = 0
PROPERTY
    PassIsComplete
