CONSTANTS
    Absent = Absent
    MinBlock = 2
    MaxBlock = 4
    ResizeAt = 8
    MaxPending = 2
    Offsets <- Two
    Buffers <- OneByte
    TruncateSizes = {0, 3}
    Failures = TRUE
    HoleAfterTruncate = FALSE
    TruncateWhileWriting = FALSE
    MaxHeld = 3
    MaxSize = 3
SPECIFICATION Spec
PROPERTIES FailureKeepsData ImplementsBufferedFile
