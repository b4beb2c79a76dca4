SPECIFICATION Spec
CONSTANTS
    Threads = {main, t1, t2}
    Main = main
    None = None
    Addrs = {a, b}
    Bits = {1}
    Bitsets <- MCAny
    Numbers = {0, 1, 2}
    FlagSets <- MCFlagSets
INVARIANTS
    ContextsSound
    NoLostWaiter
    QueuedOnce
PROPERTIES
    TlsKept
    EndClearsTid
CHECK_DEADLOCK FALSE
