SPECIFICATION CortexSpec
CONSTANTS
    Lines = {0, 2}
    OFFSET = 1
    Exceptions <- MCExceptions
    Levels = {0, 1}
    MaxLoad = 1
    MaxQueue = 2
    MaxWrites = 3
    MaxCrashes = 1
INVARIANTS
    StacksSound
    TakenByPriority
PROPERTIES
    QueuedIsTaken
    SysTickGoesOn
CHECK_DEADLOCK FALSE
