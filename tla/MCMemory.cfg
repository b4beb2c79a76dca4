SPECIFICATION Spec
CONSTANTS
    PageSize = 2
    MemUbound = 4
    Labels = {"mapped"}
    Prots <- MCProts
    Lens = {1, 2, 4}
    Callbacks <- MCCallbacks
INVARIANTS
    ListSound
    QueriesExact
PROPERTIES
    OkKeepsAgreement
    OkKeepsPerms
