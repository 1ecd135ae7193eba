\* Plots of one to three members with up to three tasks, and three questions.
SPECIFICATION PlotsSpec
CONSTANTS
    t1 = t1  t2 = t2  t3 = t3
    q1 = q1  q2 = q2  q3 = q3
    Tasks <- ThreeTasks
    Questions <- ThreeQuestions
    Gen = Gen
    None = None
    GenKinds <- AllKinds
    WordSize = 8
    TimeSize = 32
    Membs <- AllMembs
    MayFail = TRUE
SYMMETRY Symmetry
INVARIANTS
    TextOutlivesHolders
    NoTextLeaks
    CounterCountsHolders
    GensUsedAlive
    NoGenLeaks
CHECK_DEADLOCK FALSE
