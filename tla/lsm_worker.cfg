SPECIFICATION Spec
CONSTANTS
    k1 = k1
    v1 = v1
    c1 = c1
    c2 = c2
    Keys <- MCKeys
    Vals <- NoVals
    Cursors <- TwoCursors
    MaxLast = 4
    MergeMax = 2
    BloomNewest = TRUE
    Faults <- Survivable
    Tomb = Tomb
    NULL = NULL
INVARIANT TypeOK
INVARIANT SnapshotsHaveFiles
INVARIANT NcursorCountsPrimaries
INVARIANT GenerationNamesRoster
