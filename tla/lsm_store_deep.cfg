SPECIFICATION Spec
CONSTANTS
    k1 = k1
    v1 = v1
    c1 = c1
    c2 = c2
    Keys <- MCKeys
    Vals <- MCVals
    Cursors <- OneCursor
    MaxLast = 5
    MergeMax = 2
    BloomNewest = TRUE
    Faults <- NoFaults
    Tomb = Tomb
    NULL = NULL
PROPERTY Implements
