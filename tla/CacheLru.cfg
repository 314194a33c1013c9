CONSTANTS
    k1 = k1
    k2 = k2
    k3 = k3
    k4 = k4
    Keys <- FourKeys
    BucketOf <- TwoBuckets
    SizeOf <- Sizes
    MaxCount = 3
    MaxBytes = 5
    Cells = {1, 2, 3, 4}
SPECIFICATION Spec
INVARIANTS TypeOK ListIsDouble TableMatchesList WithinLimits
PROPERTY ImplementsLru
