SPECIFICATION Spec
CONSTANTS
    Keys = {"code", "read_unmapped", "read", "syscall", "intr"}
    Kind <- MCKind
    Hooks = {"code", "code2", "code3", "reads", "insn", "intno3"}
    KeysOf <- MCKeysOf
    Begin <- MCBegin
    End <- MCEnd
    Intno <- MCIntno
    NoIntno <- MCNoIntno
    Events <- MCEvents
INVARIANTS
    TablesSound
    NoDoubleCall
    AllMatchingCalled
PROPERTIES
    OneUcHook
    RemovedNotCalled
