SPECIFICATION Spec
CONSTANTS
    Columns <- MCColumns
    TypeOf <- MCTypeOf
    Values <- MCValues
    Width <- MCWidth
    Zero = 0
    RecnoSize = 2
    AllocUnit = 4
    Pad = Pad
    Junk = Junk
    Garbled = Garbled
    Fresh = FALSE
    Damaged = FALSE
    MaxFail = 1
    Tables <- MCTables
    Projections <- MCProjections
    InCalls <- AppendingCalls
INVARIANT TypeOK
INVARIANT ReadsWhatWasPacked
PROPERTY Implements
PROPERTY GetsWhatWasSet
