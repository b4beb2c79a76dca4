SPECIFICATION Spec
CONSTANTS
    Threads = {main, t1, t2}
    Main = main
    None = None
    Addrs = {a}
    Bits = {1}
    Bitsets <- MCAny
    Numbers = {1}
    FlagSets <- MCPthread
PROPERTIES WokenRuns StopEndsRun
CHECK_DEADLOCK FALSE
