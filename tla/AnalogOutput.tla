---------------------------- MODULE AnalogOutput ----------------------------
(***************************************************************************)
(* The command priority array of one Analog Output object                  *)
(* (src/src/bacnet/basic/object/ao.c).  Level[] holds one byte per         *)
(* priority; AO_LEVEL_NULL (255) marks a relinquished priority.  A REAL    *)
(* written to the array is converted to that byte, i.e. truncated.         *)
(*                                                                         *)
(* Real arguments are passed as num / scale with integers, so the model    *)
(* keeps the exact value the C code compares and truncates.                *)
(***************************************************************************)
EXTENDS Naturals, Integers, FiniteSets, FiniteSetsExt

CONSTANT MaxPriority   \* BACNET_MAX_PRIORITY

AoLevelNull == 255
AoRelinquishDefault == 0
Priorities == 1..MaxPriority
Levels == (0..100) \cup {AoLevelNull}

\* Analog_Output_Objects_Init: every priority relinquished.
NullArray == [p \in Priorities |-> AoLevelNull]

Active(a) == {p \in Priorities : a[p] # AoLevelNull}

\* Analog_Output_Present_Value: the first non-NULL level, else the
\* relinquish default.
PresentValue(a) == IF Active(a) = {} THEN AoRelinquishDefault ELSE a[Min(Active(a))]

\* Analog_Output_Present_Value_Priority: 1 + index of the first non-NULL
\* level, or 0 when every priority is relinquished.
PresentValuePriority(a) == IF Active(a) = {} THEN 0 ELSE Min(Active(a))

\* The checks of Analog_Output_Present_Value_Set / _Relinquish.
WritablePriority(p) == p \in Priorities /\ p # 6
InRange(num, scale) == 0 <= num /\ num <= 100 * scale

\* Analog_Output_Present_Value_Set(instance, num / scale, priority) succeeds
SetAccepted(num, scale, p) == WritablePriority(p) /\ InRange(num, scale)

\* Seeded fault: the store without the 0..100 range check.
PresentValueSetUnchecked(a, num, scale, p) ==
    IF WritablePriority(p) THEN [a EXCEPT ![p] = num \div scale] ELSE a

\* Analog_Output_Present_Value_Set: a successful set stores the value
\* truncated to the Level byte.
PresentValueSet(a, num, scale, p) ==
    IF SetAccepted(num, scale, p) THEN [a EXCEPT ![p] = num \div scale] ELSE a

\* Analog_Output_Present_Value_Relinquish
PresentValueRelinquish(a, p) ==
    IF WritablePriority(p) THEN [a EXCEPT ![p] = AoLevelNull] ELSE a

=============================================================================
