SPECIFICATION Spec
CONSTANTS
    NULL = NULL
    Signal = Signal
INVARIANT UserSettingsHold
