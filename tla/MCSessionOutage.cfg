SPECIFICATION SessionSpec
CONSTANTS
    Window = 3
    ChunkSize = 2
    Retro = 2
    MaxEntries = 6
CHECK_DEADLOCK FALSE
INVARIANT RedactedStaysRedacted
