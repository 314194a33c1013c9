CONSTANTS
    Absent = Absent
    MinBlock = 2
    MaxBlock = 4
    ResizeAt = 8
    MaxPending = 2
    Offsets <- Near
    Buffers <- OneByte
    TruncateSizes = {0, 2, 4, 5}
    Failures = FALSE
    HoleAfterTruncate = TRUE
    TruncateWhileWriting = FALSE
    MaxHeld = 3
    MaxSize = 4
SPECIFICATION Spec
PROPERTY ImplementsBufferedFile
