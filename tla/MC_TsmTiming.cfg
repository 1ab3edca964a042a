CONSTANTS
    Devices = {d1}
    MaxTsm = 1
    InvokeIdLimit = 4
    ApduTimeout = 3000
    ApduRetries = 2
    ClockSteps <- MC_TimingSteps
    MaxCalls = 2
SPECIFICATION Spec
PROPERTIES
    RetryTimingBound
