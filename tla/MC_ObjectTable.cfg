CONSTANTS
    MaxPriority = 2
    Calls <- MC_Calls
    AllocMayFail = TRUE
SPECIFICATION Spec
INVARIANTS
    TypeOK
    NoDoubleFree
