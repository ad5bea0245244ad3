SPECIFICATION Spec
CONSTANTS
    NULL = NULL
    Signal = Signal
INVARIANT TypeOK
INVARIANT LsmIsRowStore
INVARIANT PrintedStatsAreFinal
INVARIANT SeedOfWSurvives
PROPERTY PermanentValuesKept
PROPERTY ReplayReproducesRun
