SPECIFICATION FairSpec
CONSTANTS
    a = a
    b = b
    Names = {a, b}
    Configs <- MCConfigs
    MaxLast = 2
    MaxHolders = 1
    WordBits = 4
    CacheSize = 8
    LsmMerge = TRUE
    Faults <- NoFaults
    Dangling <- AnyFilename
    NULL = NULL
    NoMeta = NoMeta
    Junk = Junk
PROPERTY StopCompletes
