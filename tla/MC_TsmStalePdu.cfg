CONSTANTS
    Devices = {d1}
    MaxTsm = 1
    InvokeIdLimit = 4
    ApduTimeout = 3000
    ApduRetries = 1
    ClockSteps = {1}
    MaxCalls = 4
SPECIFICATION Spec
INVARIANTS
    TransactionPduIsOwn
