CONSTANTS
    Devices = {d1}
    MaxTsm <- MC_MaxTsm
    InvokeIdLimit <- MC_InvokeIdLimit
    ApduTimeout <- MC_ApduTimeout
    ApduRetries <- MC_ApduRetries
    ClockSteps <- MC_ClockSteps
    MaxCalls <- MC_MaxCalls
SPECIFICATION Spec
INVARIANTS
    TypeOK
    UniqueInvokeIds
PROPERTIES
    TransactionsTerminate
    Refinement
