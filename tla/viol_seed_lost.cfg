SPECIFICATION Spec
CONSTANTS
    NULL = NULL
    Signal = Signal
INVARIANT SeedSurvives
