SPECIFICATION Spec
CONSTANTS
    a = a
    b = b
    Names = {a, b}
    Configs <- FaultConfigs
    MaxLast = 2
    MaxHolders = 1
    WordBits = 4
    CacheSize = 8
    LsmMerge = TRUE
    Faults <- AllFaults
    Dangling <- NewFilename
    NULL = NULL
    NoMeta = NoMeta
    Junk = Junk
SYMMETRY NameSymmetry
INVARIANT HoldersHaveHandle
