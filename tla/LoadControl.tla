---------------------------- MODULE LoadControl ----------------------------
(***************************************************************************)
(* The Load Control objects of src/src/bacnet/basic/object/lc.c and the   *)
(* Analog Outputs they shed (ao.c): Load Control object i commands AO i   *)
(* at priority 4.  BACnet clients write the Load Control properties and   *)
(* command the outputs at any priority; once a second the main loop runs  *)
(* Load_Control_State_Machine_Handler, which refreshes Current_Time and   *)
(* runs the shed state machine of every object in index order.            *)
(*                                                                         *)
(* Times are whole minutes (Shed_Duration is in minutes); the date-time    *)
(* wildcard is the model value Wild.  Amounts are in units of 0.1 kW.      *)
(***************************************************************************)
EXTENDS Naturals, Integers, FiniteSets, FiniteSetsExt

CONSTANTS
    NumObjects,       \* Load_Control_Add(n) and Analog_Output_Add(n)
    Wild,             \* a date-time with every field a wildcard
    FullDutyBaseline, \* Full_Duty_Baseline, 1.500 kW, in 0.1 kW
    Requests,         \* BACnetShedLevel values clients write
    StartTimes,       \* Start_Time values clients write
    Durations,        \* Shed_Duration values clients write (minutes)
    ShedLevelWrites,  \* values clients write into Shed_Levels[]
    AoCommands,       \* [priority, value] commands clients write to an AO
    LuaCommands,      \* [priority, value] of setAnalogOutputPresentValue calls
    MaxTime,          \* last minute the wall clock reaches
    MaxWrites,        \* bound on client writes
    MaxPriority       \* BACNET_MAX_PRIORITY

AO == INSTANCE AnalogOutput

Objects == 0..(NumObjects - 1)
MaxShedLevels == 3
ShedLevelValues == <<90, 80, 70>>   \* Shed_Level_Values[] (percent)
ShedTypes == {"PERCENT", "LEVEL", "AMOUNT"}
LcStates == {"INACTIVE", "REQUEST_PENDING", "NON_COMPLIANT", "COMPLIANT"}
Times == 0..MaxTime
DateTimes == Times \cup {Wild}

ASSUME /\ NumObjects \in Nat \ {0}
       /\ Wild \notin Nat
       /\ FullDutyBaseline \in Nat \ {0}
       /\ \A r \in Requests : r.type \in ShedTypes /\ r.value \in Nat
       /\ StartTimes \subseteq DateTimes /\ Durations \subseteq Nat
       /\ \A c \in AoCommands \cup LuaCommands :
              c.priority \in 1..MaxPriority /\ c.value \in Nat
       /\ MaxWrites \in Nat

VARIABLES
    lc,           \* lc[i]: Load_Control_Descr[i]
    ao,           \* ao[i]: Level[] of Analog Output i
    currentTime,  \* Current_Time of lc.c
    clock,        \* the wall clock datetime_local() reads
    shedCommand,  \* the priority-4 level of AO i was set by Load Control i (history)
    writes        \* client writes so far

vars == <<lc, ao, currentTime, clock, shedCommand, writes>>

ShedLevel == [type : ShedTypes, value : Nat]

Descr == [PresentValue : LcStates, Requested : ShedLevel, Expected : ShedLevel,
          Actual : ShedLevel, StartTime : DateTimes, Duration : Nat,
          Enable : BOOLEAN, RequestWritten : BOOLEAN, StartWritten : BOOLEAN,
          ShedLevels : [1..MaxShedLevels -> Nat], State : LcStates]

TypeOK ==
    /\ lc \in [Objects -> Descr]
    /\ ao \in [Objects -> [AO!Priorities -> AO!Levels]]
    /\ currentTime \in DateTimes
    /\ clock \in Times
    /\ shedCommand \in [Objects -> BOOLEAN]
    /\ writes \in 0..MaxWrites

-----------------------------------------------------------------------------
(* Helpers of lc.c and of the date-time library.                           *)

\* Shed_Level_Default_Set
DefaultLevel(type) ==
    [type |-> type, value |-> CASE type = "PERCENT" -> 100
                                [] type = "AMOUNT"  -> 0
                                [] OTHER            -> 0]

IsDefault(r) == r = DefaultLevel(r.type)

\* The LEVEL case of Requested_Shed_Level_Value: the last entry of
\* Shed_Levels[] not above the requested level, else the first.
ShedLevelIndex(d) ==
    LET fits == {i \in 1..MaxShedLevels : d.ShedLevels[i] <= d.Requested.value}
    IN IF fits = {} THEN 1 ELSE Max(fits)

\* Requested_Shed_Level_Value, times FullDutyBaseline so that it is exact.
RequestedValueScaled(d) ==
    CASE d.Requested.type = "PERCENT" -> d.Requested.value * FullDutyBaseline
      [] d.Requested.type = "AMOUNT"  -> (FullDutyBaseline - d.Requested.value) * 100
      [] OTHER -> ShedLevelValues[ShedLevelIndex(d)] * FullDutyBaseline

\* Seeded fault: `priority >= 3', so a command at priority 3 is not seen
\* as overriding the Load Control object.
AbleToMeetShedRequestGe3(d, p, a) ==
    /\ AO!PresentValuePriority(p) >= 3
    /\ AO!PresentValue(a) * FullDutyBaseline >= RequestedValueScaled(d)

\* Able_To_Meet_Shed_Request: AO i is commanded at priority 4 or lower
\* and its present value is at least the requested level.  The two are
\* read under two separate locks of AO_Descr_Mutex: the priority from
\* the array p, the value from the array a the output has by then.
AbleToMeetShedRequest(d, p, a) ==
    /\ AO!PresentValuePriority(p) >= 4
    /\ AO!PresentValue(a) * FullDutyBaseline >= RequestedValueScaled(d)

\* datetime_add_minutes and datetime_compare(x, y) < 0.  A wildcard
\* date-time has every field 0xFF and so is later than any real time.
AddMinutes(t, m) == IF t = Wild THEN Wild ELSE t + m
Earlier(x, y) == IF x = Wild THEN FALSE ELSE y = Wild \/ x < y

EndTime(d) == AddMinutes(d.StartTime, d.Duration)

(* Load_Control_Objects_Init after Load_Control_Add(NumObjects), and the  *)
(* Analog Outputs relinquished by Analog_Output_Objects_Init.             *)
Init ==
    /\ lc = [i \in Objects |->
              [PresentValue |-> "INACTIVE",
               Requested |-> DefaultLevel("LEVEL"), Expected |-> DefaultLevel("LEVEL"),
               Actual |-> DefaultLevel("LEVEL"), StartTime |-> Wild, Duration |-> 0,
               Enable |-> TRUE, RequestWritten |-> FALSE, StartWritten |-> FALSE,
               ShedLevels |-> [j \in 1..MaxShedLevels |-> j], State |-> "INACTIVE"]]
    /\ ao = [i \in Objects |-> AO!NullArray]
    /\ currentTime = Wild
    /\ clock = 0
    /\ shedCommand = [i \in Objects |-> FALSE]
    /\ writes = 0

-----------------------------------------------------------------------------
(* Load_Control_State_Machine(i), as a function of the whole table w =    *)
(* [lc, ao, cmd], because one branch writes another object's Start_Time.   *)

SetState(w, i, s) == [w EXCEPT !.lc[i].State = s]

\* ReconfigurePending: expect the request, nothing shed yet.
ReconfigurePending(w, i) ==
    [w EXCEPT !.lc[i].Expected = w.lc[i].Requested,
              !.lc[i].Actual = DefaultLevel(w.lc[i].Requested.type)]

\* AbleToMeetShed / CanNowComplyWithShed: command AO i at priority 4.
Comply(w, i) ==
    LET d == w.lc[i]
        v == RequestedValueScaled(d)
    IN [lc  |-> [w.lc EXCEPT ![i].Expected = d.Requested, ![i].Actual = d.Requested,
                             ![i].State = "COMPLIANT"],
        ao  |-> [w.ao EXCEPT ![i] = AO!PresentValueSet(@, v, FullDutyBaseline, 4)],
        cmd |-> [w.cmd EXCEPT ![i] = @ \/ AO!SetAccepted(v, FullDutyBaseline, 4)]]

\* CannotMeetShed / CanNoLongerComplyWithShed
NotComply(w, i) ==
    [w EXCEPT !.lc[i].Expected = DefaultLevel(w.lc[i].Requested.type),
              !.lc[i].Actual = DefaultLevel(w.lc[i].Requested.type),
              !.lc[i].State = "NON_COMPLIANT"]

\* FinishedSuccessfulShed: the wildcard goes to Load_Control_Descr[i] with
\* the loop counter i, which is always 0, and AO i is relinquished.
FinishShed(w, i) ==
    [lc  |-> [w.lc EXCEPT ![0].StartTime = Wild, ![i].State = "INACTIVE"],
     ao  |-> [w.ao EXCEPT ![i] = AO!PresentValueRelinquish(@, 4)],
     cmd |-> [w.cmd EXCEPT ![i] = FALSE]]

Reconfigured(d) == d.RequestWritten \/ d.StartWritten

PendingStep(w, i, now, p) ==
    LET d0 == w.lc[i]
        w1 == [w EXCEPT !.lc[i].RequestWritten = FALSE]
        w2 == [w1 EXCEPT !.lc[i].StartWritten = FALSE]
        d  == w2.lc[i]
    IN IF d0.RequestWritten /\ IsDefault(d0.Requested) THEN SetState(w1, i, "INACTIVE")
       ELSE IF d0.StartWritten /\ d0.StartTime = Wild THEN SetState(w2, i, "INACTIVE")
       ELSE IF Earlier(EndTime(d), now) THEN SetState(w2, i, "INACTIVE")
       ELSE IF Earlier(now, d.StartTime) THEN ReconfigurePending(w2, i)
       ELSE IF Earlier(d.StartTime, now)
            THEN IF AbleToMeetShedRequest(d, p, w2.ao[i]) THEN Comply(w2, i)
                 ELSE NotComply(w2, i)
       ELSE w2

\* Seeded fault: NON_COMPLIANT forgets to check the end of the shed.
NonCompliantStepNoExpiry(w, i, now, p) ==
    LET d == w.lc[i]
    IN IF Reconfigured(d) THEN SetState(w, i, "REQUEST_PENDING")
       ELSE IF AbleToMeetShedRequest(d, p, w.ao[i]) THEN Comply(w, i)
       ELSE w

NonCompliantStep(w, i, now, p) ==
    LET d == w.lc[i]
    IN IF Earlier(EndTime(d), now) THEN SetState(w, i, "INACTIVE")
       ELSE IF Reconfigured(d) THEN SetState(w, i, "REQUEST_PENDING")
       ELSE IF AbleToMeetShedRequest(d, p, w.ao[i]) THEN Comply(w, i)
       ELSE w

\* Seeded fault: COMPLIANT forgets to check the end of the shed.
CompliantStepNoExpiry(w, i, now, p) ==
    LET d == w.lc[i]
    IN IF Reconfigured(d) THEN SetState(w, i, "REQUEST_PENDING")
       ELSE IF ~AbleToMeetShedRequest(d, p, w.ao[i]) THEN NotComply(w, i)
       ELSE w

CompliantStep(w, i, now, p) ==
    LET d == w.lc[i]
    IN IF Earlier(EndTime(d), now) THEN FinishShed(w, i)
       ELSE IF Reconfigured(d) THEN SetState(w, i, "REQUEST_PENDING")
       ELSE IF ~AbleToMeetShedRequest(d, p, w.ao[i]) THEN NotComply(w, i)
       ELSE w

InactiveStep(w, i) ==
    IF w.lc[i].StartWritten
    THEN SetState(ReconfigurePending(w, i), i, "REQUEST_PENDING")
    ELSE w

StateMachine(w, i, now, p) ==
    IF ~w.lc[i].Enable THEN SetState(w, i, "INACTIVE")
    ELSE CASE w.lc[i].State = "REQUEST_PENDING" -> PendingStep(w, i, now, p)
           [] w.lc[i].State = "NON_COMPLIANT"   -> NonCompliantStep(w, i, now, p)
           [] w.lc[i].State = "COMPLIANT"       -> CompliantStep(w, i, now, p)
           [] OTHER                             -> InactiveStep(w, i)

\* No Lua command lands inside the handler run.
NoLuaCommand == [priority |-> 0, value |-> 0]

\* set_analog_output_present_value: Analog_Output_Present_Value_Set of the
\* Lua thread, whose result the binding ignores.  A command accepted at
\* priority 4 replaces Load Control i's.
LuaSet(w, i, c) ==
    IF c = NoLuaCommand THEN w
    ELSE [w EXCEPT !.ao[i] = AO!PresentValueSet(@, c.value, 1, c.priority),
                   !.cmd[i] = @ /\ ~(c.priority = 4 /\ AO!SetAccepted(c.value, 1, 4))]

\* The objects in index order; the Lua command c lands in object at's
\* Able_To_Meet_Shed_Request, after the priority read (of p) and before
\* the value read.  Where the object's step reads no output, this is the
\* same as the command landing before the run.
RECURSIVE RunStateMachines(_, _, _, _, _)
RunStateMachines(w, i, now, at, c) ==
    IF i = NumObjects THEN w
    ELSE LET p == w.ao[i]
             v == IF i = at THEN LuaSet(w, i, c) ELSE w
         IN RunStateMachines(StateMachine(v, i, now, p), i + 1, now, at, c)

-----------------------------------------------------------------------------
(* Actions.                                                                *)

\* The Lua commands that can land inside a handler run.
LuaMid == {NoLuaCommand} \cup (IF writes < MaxWrites THEN LuaCommands ELSE {})

\* Load_Control_State_Machine_Handler: Current_Time := datetime_local(),
\* then every object in index order, while the Lua thread runs on.  Its
\* first-call reset of every state to INACTIVE finds them INACTIVE
\* already (nothing else changes them).
LoadControlStateMachineHandler ==
    \E at \in Objects, c \in LuaMid :
       LET w == RunStateMachines([lc |-> lc, ao |-> ao, cmd |-> shedCommand],
                                 0, clock, at, c)
       IN /\ lc' = w.lc
          /\ ao' = w.ao
          /\ shedCommand' = w.cmd
          /\ currentTime' = clock
          /\ writes' = IF c = NoLuaCommand THEN writes ELSE writes + 1
          /\ UNCHANGED clock

\* The wall clock advances one minute.
ClockAdvance ==
    /\ clock < MaxTime
    /\ clock' = clock + 1
    /\ UNCHANGED <<lc, ao, currentTime, shedCommand, writes>>

\* Load_Control_Write_Property, one action per writable property.
ClientWrite(i, field, val, flag) ==
    /\ writes < MaxWrites
    /\ lc' = [lc EXCEPT ![i][field] = val, ![i][flag] = TRUE]
    /\ writes' = writes + 1
    /\ UNCHANGED <<ao, currentTime, clock, shedCommand>>

WriteRequestedShedLevel(i, r) == ClientWrite(i, "Requested", r, "RequestWritten")
WriteStartTime(i, t) == ClientWrite(i, "StartTime", t, "StartWritten")
WriteShedDuration(i, m) == ClientWrite(i, "Duration", m, "RequestWritten")
\* Duty_Window is stored but never read; only the flag matters.
WriteDutyWindow(i) == ClientWrite(i, "RequestWritten", TRUE, "RequestWritten")

WriteShedLevels(i, idx, v) ==
    /\ writes < MaxWrites
    /\ lc' = [lc EXCEPT ![i].ShedLevels[idx] = v]
    /\ writes' = writes + 1
    /\ UNCHANGED <<ao, currentTime, clock, shedCommand>>

WriteEnable(i, b) ==
    /\ writes < MaxWrites
    /\ lc' = [lc EXCEPT ![i].Enable = b]
    /\ writes' = writes + 1
    /\ UNCHANGED <<ao, currentTime, clock, shedCommand>>

\* Analog_Output_Write_Property of Present_Value: a REAL commands the
\* priority, NULL relinquishes it.  Either takes priority 4 away from the
\* Load Control object.
WriteAoPresentValue(i, c) ==
    /\ writes < MaxWrites
    /\ AO!SetAccepted(c.value, 1, c.priority)
    /\ ao' = [ao EXCEPT ![i] = AO!PresentValueSet(@, c.value, 1, c.priority)]
    /\ shedCommand' = [shedCommand EXCEPT ![i] = @ /\ c.priority # 4]
    /\ writes' = writes + 1
    /\ UNCHANGED <<lc, currentTime, clock>>

\* setAnalogOutputPresentValue(i, value, priority) of the Lua Run() script,
\* between two handler runs.
LuaSetAoPresentValue(i, c) ==
    /\ writes < MaxWrites
    /\ LET w == LuaSet([lc |-> lc, ao |-> ao, cmd |-> shedCommand], i, c)
       IN ao' = w.ao /\ shedCommand' = w.cmd
    /\ writes' = writes + 1
    /\ UNCHANGED <<lc, currentTime, clock>>

RelinquishAoPresentValue(i, p) ==
    /\ writes < MaxWrites
    /\ ao' = [ao EXCEPT ![i] = AO!PresentValueRelinquish(@, p)]
    /\ shedCommand' = [shedCommand EXCEPT ![i] = @ /\ p # 4]
    /\ writes' = writes + 1
    /\ UNCHANGED <<lc, currentTime, clock>>

Next ==
    \/ LoadControlStateMachineHandler
    \/ ClockAdvance
    \/ \E i \in Objects :
          \/ \E r \in Requests : WriteRequestedShedLevel(i, r)
          \/ \E t \in StartTimes : WriteStartTime(i, t)
          \/ \E m \in Durations : WriteShedDuration(i, m)
          \/ WriteDutyWindow(i)
          \/ \E idx \in 1..MaxShedLevels, v \in ShedLevelWrites : WriteShedLevels(i, idx, v)
          \/ \E b \in BOOLEAN : WriteEnable(i, b)
          \/ \E c \in AoCommands : WriteAoPresentValue(i, c)
          \/ \E c \in AoCommands : RelinquishAoPresentValue(i, c.priority)
          \/ \E c \in LuaCommands : LuaSetAoPresentValue(i, c)

(* The main loop runs the handler every elapsed second and the wall clock *)
(* keeps running; client writes and the Lua script may stop at any time.  *)
Fairness == WF_vars(LoadControlStateMachineHandler) /\ WF_vars(ClockAdvance)

Spec == Init /\ [][Next]_vars /\ Fairness

-----------------------------------------------------------------------------
(* Properties.                                                             *)

\* The handler step changes the priority-4 level of AO i to a command of
\* Load Control i.
Commands(i) == shedCommand'[i] /\ ao'[i][4] # ao[i][4]

\* The objects whose Start_Time only clients and their own successful
\* finish write.  FinishedSuccessfulShed of every object wipes
\* Load_Control_Descr[i] with the handler's local i, always 0 (lc.c:506),
\* so object 0's Start_Time is also written by the others: that object is
\* the subject of StartTimeResetOnlyOwn, whose violation shows how it then
\* complies outside any window or never finishes.
OwnStartTime == Objects \ {0}

(* Load_Control_State_Machine commands AO i at priority 4 only inside the *)
(* shed window of object i, Start_Time < Current_Time <= Start_Time +     *)
(* Shed_Duration: REQUEST_PENDING and NON_COMPLIANT test the end of the   *)
(* window before they comply, and only a pending request past its start  *)
(* reaches either.  Checked for every object that owns its Start_Time,    *)
(* while object 0 runs, finishes and is reconfigured in the same handler  *)
(* runs.                                                                  *)
ShedOnlyInWindow ==
    [][LoadControlStateMachineHandler =>
         \A i \in OwnStartTime :
             Commands(i) => /\ Earlier(lc[i].StartTime, clock)
                            /\ ~Earlier(EndTime(lc[i]), clock)]_vars

(* Every shed ends: once the wall clock passes Start_Time + Shed_Duration *)
(* and the clients stop writing, the handler brings every Load Control    *)
(* object back to INACTIVE from REQUEST_PENDING, NON_COMPLIANT and        *)
(* COMPLIANT alike; for the objects that own their Start_Time.            *)
ShedsEnd == \A i \in OwnStartTime : lc[i].State # "INACTIVE" ~> lc[i].State = "INACTIVE"

\* A priority above Load Control's 4 commands AO i.
Overridden(a) == AO!PresentValuePriority(a) \in 1..3

(* Able_To_Meet_Shed_Request reads the priority and the value of AO i     *)
(* under two separate locks, and the Lua thread may command the output   *)
(* between them, so a handler run can leave object i COMPLIANT with its  *)
(* output overridden at priority 1..3 (as can a client command after the *)
(* run).  Such a compliance lasts one run: a run that starts with i      *)
(* COMPLIANT and AO i overridden ends with i out of COMPLIANT, whatever  *)
(* Lua command lands between its reads.                                  *)
StaleComplianceRevoked ==
    [][LoadControlStateMachineHandler =>
         \A i \in Objects :
             lc[i].State = "COMPLIANT" /\ Overridden(ao[i]) => lc'[i].State # "COMPLIANT"]_vars

(* spec.md 4.3: a successful shed ends by resetting ITS OWN Start_Time to *)
(* the wildcard.  No handler step changes the Start_Time of an object     *)
(* other than one finishing a successful shed.                            *)
StartTimeResetOnlyOwn ==
    [][LoadControlStateMachineHandler =>
         \A i \in Objects :
             lc'[i].StartTime # lc[i].StartTime =>
                 lc[i].State = "COMPLIANT" /\ lc'[i].State = "INACTIVE"]_vars

(* lc.c:410 ("FIXME: stop shedding! i.e. relinquish") and spec.md 4.3: a  *)
(* Load Control object that is INACTIVE holds no priority-4 command on    *)
(* its Analog Output.                                                     *)
ShedReleasedWhenInactive ==
    \A i \in Objects : lc[i].State = "INACTIVE" => ~shedCommand[i]

(* spec.md 3 and 4.3: the default shed level (percent 100, level 0,      *)
(* amount 0) means "no shed".  The handler never commands a shed while    *)
(* the requested shed level is the default.                              *)
NoShedAtDefaultLevel ==
    [][LoadControlStateMachineHandler =>
         \A i \in Objects : Commands(i) => ~IsDefault(lc[i].Requested)]_vars

=============================================================================
