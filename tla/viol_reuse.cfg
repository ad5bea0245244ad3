SPECIFICATION Spec
CONSTANTS
    Columns <- MCColumns
    TypeOf <- MCTypeOf
    Values <- MCValues
    Width <- MCWidth
    Zero = 0
    RecnoSize = 2
    AllocUnit = 8
    Pad = Pad
    Junk = Junk
    Garbled = Garbled
    Fresh = FALSE
    Damaged = FALSE
    MaxFail = 0
    Tables <- ReuseTables
    Projections <- ReuseProjections
    InCalls <- NoCalls
PROPERTY Implements
