\* Liveness for tasks that never ask for more.
SPECIFICATION FairSpec
CONSTANTS
    c1 = c1  c2 = c2
    Clients = {c1}
    NTasks = 2
    Kind <- WholeThenFree
    HasTimeout <- AllTimed
    MaxSends = 2
    MayFail = FALSE
    NoClient = NoClient
INVARIANT
    WaitsOnTheClock
PROPERTIES
    TimerResolves
    HangUpDisconnects
    DestroyTerminates
CHECK_DEADLOCK FALSE
