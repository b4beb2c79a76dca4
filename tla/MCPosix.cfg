SPECIFICATION PosixSpec
CONSTANTS
    PageSize = 2
    MemUbound = 6
    Labels = {"[program]", "[brk]", "[shm]", "[mmap anonymous]", "f"}
    Prots <- MCProts
    Lens = {1, 4}
    Callbacks = {}
    BrkStart = 2
    MmapAddress = 2
    MmapFlags <- MCFlags
    Fds = {0}
    Files = {"f"}
    NoFile = "none"
    Keys = {1}
    ShmSizes = {2}
    Modes <- MCModes
    SHMMNI = 1
    SHMLBA = 4
    MaxAttach = 1
INVARIANTS
    MapSound
PROPERTIES
    MmapOutcome
CHECK_DEADLOCK FALSE
