SPECIFICATION SpecHeap
CONSTANTS
    PageSize = 4
    StartAddress = 4
    EndAddress = 24
    Foreign <- MCForeign
    Sizes = {1, 3, 5, 7}
    MaxChunks = 5
INVARIANTS
    HeapSound
PROPERTIES
    ImplementsAllocator
    LargeEnough
