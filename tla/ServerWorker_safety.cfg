\* Two clients of one worker, failures, every interleaving of the hand-offs.
SPECIFICATION Spec
CONSTANTS
    c1 = c1  c2 = c2
    Clients = {c1, c2}
    NTasks = 2
    Kind <- WholeThenStream
    HasTimeout <- TimedThenNot
    MaxSends = 1
    MayFail = TRUE
    NoClient = NoClient
SYMMETRY Symmetry
INVARIANTS
    TaskPresent
    PolledWhilePending
    BorrowedTextAlive
    DestroyReleasesAll
    UseAfterFreeOnlyInHandOff
PROPERTY
    SessionOnlyAdvances
CHECK_DEADLOCK FALSE
