CONSTANTS
    MaxChunks = 3
    IdleTimeout = 2
SPECIFICATION Spec
INVARIANTS
    HalfCloseTruncatesNothing
PROPERTY RelayEnds
CHECK_DEADLOCK FALSE
