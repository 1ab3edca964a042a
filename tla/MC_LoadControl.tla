---------------------------- MODULE MC_LoadControl ----------------------------
(* Model-checking instance of LoadControl: one or two Load Control        *)
(* objects and their Analog Outputs; requests of each shed type, one of   *)
(* them the default; a shed window starting at minute 1 for one minute;   *)
(* client commands of the output below and above priority 4; a Lua script *)
(* that commands the output above priority 4.                             *)
EXTENDS LoadControl

MC_Requests ==
    {[type |-> "LEVEL", value |-> 2], [type |-> "LEVEL", value |-> 0],
     [type |-> "PERCENT", value |-> 80], [type |-> "AMOUNT", value |-> 5],
     [type |-> "AMOUNT", value |-> 20]}
\* For the two-object run: a LEVEL request (through Shed_Levels[]) and an
\* AMOUNT above Full_Duty_Baseline, whose requested value is negative and
\* so refused by Analog_Output_Present_Value_Set; a start at minute 0 (the
\* wildcard still comes from Init and from lc.c:506).  Cancels by a
\* default level or a wildcard start are the other runs' subject.
MC_CoreRequests ==
    {[type |-> "LEVEL", value |-> 2], [type |-> "AMOUNT", value |-> 20]}
MC_CoreStartTimes == {0}
MC_StartTimes == {1, Wild}
MC_Durations == {1}
MC_ShedLevelWrites == {2}
MC_AoCommands == {[priority |-> 8, value |-> 100], [priority |-> 3, value |-> 100]}
MC_LuaCommands == {[priority |-> 2, value |-> 100]}

\* For the two-object run: the client commands the output below Load
\* Control (priority 8, so that a shed can comply), and the Lua script
\* overrides it at priority 3, the priority next to Load Control's.
MC_CoreAoCommands == {[priority |-> 8, value |-> 100]}
MC_CoreLuaCommands == {[priority |-> 3, value |-> 100]}
=============================================================================
