SPECIFICATION Spec
CONSTANTS
    a = a
    b = b
    Names = {a, b}
    Configs <- MCConfigs
    MaxLast = 3
    MaxHolders = 1
    WordBits = 4
    CacheSize = 8
    LsmMerge = TRUE
    Faults <- NoFaults
    Dangling <- NewFilename
    NULL = NULL
    NoMeta = NoMeta
    Junk = Junk
SYMMETRY NameSymmetry
INVARIANT TypeOK
INVARIANT RefcntIsHolders
INVARIANT WorkersMatchHandle
INVARIANT MetaMatchesRoster
INVARIANT ActiveIdsIncrease
INVARIANT OpenTreesFitCache
PROPERTY DskGenMonotonic
