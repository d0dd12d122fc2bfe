\* Three apps, pages of one app, runs of two pages.
SPECIFICATION FairSpec
CONSTANTS
    NumApps = 3
    PageSize = 1
    MaxPages = 2
    MaxTime = 3
    MaxBuild = 2
    MaxCrashes = 1
INVARIANTS
    CursorIsJustified
PROPERTIES
    WatermarkOnlyRises
    CatchesUp
    PassesFinish
