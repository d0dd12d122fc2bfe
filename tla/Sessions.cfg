SPECIFICATION FairSpec
CONSTANTS
    p1 = p1
    p2 = p2
    d1 = d1
    k1 = k1
    k2 = k2
    Pages = {p1, p2}
    Devices = {d1}
    Calls = {k1, k2}
    PageOf <- OneCallEach
    DeviceOf <- OneDevice
    OpsOf <- OpsApart
    MaxSessions = 2
    MaxEvents = 2
INVARIANTS
    OneLivePerSignIn
    SignOutIsReal
PROPERTIES
    EndedStaysEnded
    KeepsSession
    LearnsFate
