\* A read across two buffers.
SPECIFICATION Spec
CONSTANTS
    Null = Null
    Nowhere = Nowhere
    MaxAddress = 4
    BufferSize = 2
    WordSize = 16
    MaxBytes = 4
    MaxLen = 3
    MaxBuffers = 2
    MayFail = FALSE
PROPERTY
    ReadWithinLen
CHECK_DEADLOCK FALSE
