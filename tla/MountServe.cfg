SPECIFICATION Spec
CONSTANTS
    w1 = w1
    w2 = w2
    Workers <- TwoWorkers
    MaxHandles = 2
CHECK_DEADLOCK FALSE
INVARIANTS TypeOK UsesLiveMemory NothingUnsaved
PROPERTY ServesUnlessRelocked
