SPECIFICATION Spec
CONSTANTS
    PageSize = 4
    StartAddress = 4
    EndAddress = 16
    Foreign <- MCForeign
    Sizes = {1, 4, 6}
    MaxChunks = 4
INVARIANTS
    SessionSound
