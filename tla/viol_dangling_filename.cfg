SPECIFICATION Spec
CONSTANTS
    a = a
    b = b
    Names = {a, b}
    Configs <- OnlyPlain
    MaxLast = 2
    MaxHolders = 1
    WordBits = 4
    CacheSize = 8
    LsmMerge = TRUE
    Faults <- NoFaults
    Dangling <- AnyFilename
    NULL = NULL
    NoMeta = NoMeta
    Junk = Junk
SYMMETRY NameSymmetry
INVARIANT ActiveChunksCarryTreeName
