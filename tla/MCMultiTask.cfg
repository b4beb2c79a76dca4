SPECIFICATION TaskSpec
CONSTANTS
    Tasks = {a, b}
    Nobody = nobody
    MaxCount = 2
    MaxStarts = 2
INVARIANTS
    SlicesSound
    CountBounded
PROPERTIES
    PreservedOnStop
    StopReturns
CHECK_DEADLOCK FALSE
