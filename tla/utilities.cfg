SPECIFICATION Spec
CONSTANTS
    NL = NL
    NUL = NUL
    Unwritten = Unwritten
    InitSize = 2
    GrowBy = 2
    MaxInput = 4
    MaxFail = 1
    Unset = Unset
    MaxLen = 2
    NULL = NULL
INVARIANT TypeOK
INVARIANT StoresWithinMemory
INVARIANT ResultIsOfThisCall
PROPERTY ReturnsNextLine
