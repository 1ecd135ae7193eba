\* Streams used in any way and as the server uses them; short transfers,
\* failing malloc.
SPECIFICATION Spec
CONSTANTS
    Null = Null
    Nowhere = Nowhere
    MaxAddress = 5
    BufferSize = 2
    WordSize = 16
    MaxBytes = 5
    MaxLen = 4
    MaxBuffers = 2
    MayFail = TRUE
INVARIANTS
    BuffersListed
    OrderKept
PROPERTY
    ImplementsByteQueue
CHECK_DEADLOCK FALSE
