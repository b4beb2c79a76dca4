SPECIFICATION WinSpec
CONSTANTS
    Threads = {main, t1, t2}
    Main = main
    Process = process
    Mutex = mutex
    TIME_SLICE = 2
    MaxWaits = 1
    MaxProcs = 1
    Wrap = 2
INVARIANTS
    ContextsSound
PROPERTIES
    RunnableRuns
    EndedLeaves
CHECK_DEADLOCK FALSE
