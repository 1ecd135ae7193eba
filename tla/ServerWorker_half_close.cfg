\* A peer that hangs up in a task that asks for more.
SPECIFICATION FairSpec
CONSTANTS
    c1 = c1  c2 = c2
    Clients = {c1}
    NTasks = 2
    Kind <- WholeThenStream
    HasTimeout <- AllTimed
    MaxSends = 1
    MayFail = FALSE
    NoClient = NoClient
PROPERTY
    EveryClientLeaves
CHECK_DEADLOCK FALSE
