\* A plot of three members.
SPECIFICATION Spec
CONSTANTS
    Membs <- ThreeMembers
    WordSize = 32
    MayFail = FALSE
INVARIANT
    GensUsedAlive
CHECK_DEADLOCK FALSE
