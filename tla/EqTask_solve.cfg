\* Every chain of up to nine elements over the three operations, with braces;
\* answers in pieces to it, and to tasks of the other kinds.
SPECIFICATION AnswersSpec
CONSTANTS
    MinLen = 1
    MaxLen = 9
    RandMax = 12
    Ops <- AllOps
    Braces = TRUE
    AnswerLen = 3
    Chars <- TwoChars
    MaxBytes = 5
INVARIANTS
    FlagsNotZero
    ChainsWellFormed
    SolvedAsWritten
    JudgedAsSent
PROPERTIES
    ChecksAsAssumed
CHECK_DEADLOCK FALSE
