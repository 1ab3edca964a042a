CONSTANTS
    Wild = Wild
    FullDutyBaseline = 15
    Requests <- MC_Requests
    StartTimes <- MC_StartTimes
    Durations <- MC_Durations
    ShedLevelWrites <- MC_ShedLevelWrites
    AoCommands <- MC_AoCommands
    LuaCommands <- MC_LuaCommands
    MaxTime = 3
    MaxPriority = 16

    NumObjects = 2
    MaxWrites = 4
PROPERTIES
    StartTimeResetOnlyOwn
SPECIFICATION Spec
