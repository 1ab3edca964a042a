CONSTANTS
    NumObjects = 2
    Wild = Wild
    FullDutyBaseline = 15
    Requests <- MC_CoreRequests
    StartTimes <- MC_CoreStartTimes
    Durations <- MC_Durations
    ShedLevelWrites <- MC_ShedLevelWrites
    AoCommands <- MC_CoreAoCommands
    LuaCommands <- MC_CoreLuaCommands
    MaxTime = 2
    MaxWrites = 4
    MaxPriority = 16
SPECIFICATION Spec
INVARIANTS
    TypeOK
PROPERTIES
    ShedOnlyInWindow
    ShedsEnd
    StaleComplianceRevoked
