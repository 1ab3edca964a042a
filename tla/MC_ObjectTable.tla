--------------------------- MODULE MC_ObjectTable ---------------------------
(***************************************************************************)
(* The object tables with the simulator's two threads.  main runs         *)
(* populate_sim (--populate 1: Accumulator, Analog Output, Binary Output,  *)
(* Positive Integer Value, in its order) and then serves WriteProperty     *)
(* requests; the Lua Run() script creates objects of the same types,       *)
(* names and commands them.                                                *)
(***************************************************************************)
EXTENDS ObjectTable

Add(tb) == [tb |-> tb, op |-> "add", n |-> 1]

Rp(tb, p, i) == [tb |-> tb, op |-> "rp", inst |-> i, prop |-> p]

\* WriteProperty and ReadProperty requests main serves after populate_sim.
MainCalls ==
    << Add("acc"), Add("ao"), Add("bo"), Add("piv"),
       [tb |-> "piv", op |-> "oos", inst |-> 0],
       Rp("piv", "units", 0), Rp("bo", "name", 1), Rp("ao", "pa_all", 0),
       [tb |-> "ao", op |-> "relinquish", inst |-> 0, prio |-> 1],
       [tb |-> "ao", op |-> "oos", inst |-> 1],
       [tb |-> "bo", op |-> "oos", inst |-> 0],
       [tb |-> "bo", op |-> "wp", inst |-> 0, val |-> 1, prio |-> 1] >>

\* createAnalogOutputs(1), setAnalogOutputPresentValue(1, 120, 2),
\* createBinaryOutputs(1), createPositiveIntegerValues(1),
\* setAccumulatorName(0, ...), createAnalogOutputs(1).
MC_Calls ==
    [t \in Threads |->
        IF t = "main" THEN MainCalls
        ELSE << Add("ao"),
                [tb |-> "ao", op |-> "set", inst |-> 1, val |-> 120, prio |-> 2],
                Add("bo"), Add("piv"),
                [tb |-> "acc", op |-> "name", inst |-> 0],
                Add("ao") >>]

\* The same script with a second createBinaryOutputs(1) and a
\* setBinaryOutputPresentValue(1, 2, 1) of the object it creates.
MC_RaceCalls ==
    [t \in Threads |->
        IF t = "main" THEN MainCalls
        ELSE << Add("ao"),
                [tb |-> "ao", op |-> "set", inst |-> 1, val |-> 120, prio |-> 2],
                Add("bo"), Add("bo"),
                [tb |-> "bo", op |-> "set", inst |-> 1, val |-> 2, prio |-> 1],
                Add("piv"),
                [tb |-> "acc", op |-> "name", inst |-> 0],
                Add("ao") >>]

=============================================================================
