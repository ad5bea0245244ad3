SPECIFICATION CrashSpec
CONSTANTS
    k1 = k1
    v1 = v1
    c1 = c1
    c2 = c2
    Keys <- MCKeys
    Vals <- MCVals
    Cursors <- OneCursor
    MaxLast = 4
    MergeMax = 2
    BloomNewest = TRUE
    Faults <- RecordFaults
    Tomb = Tomb
    NULL = NULL
PROPERTY Implements
