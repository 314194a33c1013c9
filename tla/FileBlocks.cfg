CONSTANTS
    Absent = Absent
    MinBlock = 2
    MaxBlock = 4
    ResizeAt = 8
    MaxPending = 2
    Offsets <- Far
    Buffers <- TwoBuffers
    TruncateSizes = {0, 4, 17}
    Failures = FALSE
    HoleAfterTruncate = FALSE
    TruncateWhileWriting = FALSE
    MaxHeld = 3
    MaxSize = 17
SPECIFICATION Spec
INVARIANTS TypeOK BlocksFitSize BlocksStayFew NoErrorByItself
PROPERTY ImplementsBufferedFile
