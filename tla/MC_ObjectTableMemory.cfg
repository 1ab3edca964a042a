CONSTANTS
    MaxPriority = 2
    Calls <- MC_RaceCalls
    AllocMayFail = FALSE
SPECIFICATION Spec
INVARIANTS
    MemorySafe
