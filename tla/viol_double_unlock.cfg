SPECIFICATION Spec
CONSTANTS
    NULL = NULL
PROPERTY UnlockedByHolder
