SPECIFICATION UefiSpec
CONSTANTS
    dxe = dxe
    smm = smm
    ModuleList <- MCModuleList
    Smm = {smm}
    Handles = {dxe}
    Guids = {li, g}
    LoadedImage = li
    NoGuid = none
    SHADOW = 2
    MaxEvents = 2
    StackDepth = 20
INVARIANTS
    StackSound
    DeliveredInOrder
    StopClean
PROPERTIES
    InstallDelivers
    QueuedIsCalled
CHECK_DEADLOCK FALSE
