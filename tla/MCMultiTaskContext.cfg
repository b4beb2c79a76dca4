SPECIFICATION TaskSpec
CONSTANTS
    Tasks = {a, b}
    Nobody = nobody
    MaxCount = 0
    MaxStarts = 1
INVARIANT SavesOwnContext
CHECK_DEADLOCK FALSE
