\* The question is destroyed while the acceptor is still writing its text.
SPECIFICATION Spec
CONSTANTS
    c1 = c1  c2 = c2
    Clients = {c1}
    NTasks = 2
    Kind <- WholeThenStream
    HasTimeout <- AllTimed
    MaxSends = 1
    MayFail = FALSE
    NoClient = NoClient
INVARIANT
    QuestionOutlivesBorrow
CHECK_DEADLOCK FALSE
