SPECIFICATION Spec
CONSTANTS
    a = a
    b = b
    Names = {a, b}
    Configs <- OnlyPlain
    MaxLast = 3
    MaxHolders = 1
    WordBits = 4
    CacheSize = 8
    LsmMerge = TRUE
    Faults <- NoFaults
    Dangling <- NewFilename
    NULL = NULL
    NoMeta = NoMeta
    Junk = Junk
SYMMETRY NameSymmetry
INVARIANT MetaFilesExist
