---------------------------- MODULE ObjectTable ----------------------------
(***************************************************************************)
(* The object tables of src/src/bacnet/basic/object as the simulator      *)
(* server shares them between two threads (apps/server/main.c):            *)
(*   - "main": populate_sim, then the BACnet main loop (WriteProperty,     *)
(*     ReadProperty, the Load Control handler, the Lua Update() hook);     *)
(*   - "lua":  lua_script_runner, the Lua Run() function started by        *)
(*     simulated_init before populate_sim.                                 *)
(* Four tables, two ways of growing one:                                   *)
(*   - "ao"  (ao.c):  Add = Resize = Free, calloc, once-only Objects_Init; *)
(*   - "bo"  (bo.c):  Add = realloc, once-only Objects_Init, Name_Set loop;*)
(*   - "acc" (acc.c), "piv" (piv.c): Add = realloc, then per new object a  *)
(*     locked Name = NULL and Set_Properties (Name_Set, Present_Value_Set).*)
(*                                                                         *)
(* Each region between pthread_mutex_lock and _unlock of a table's mutex   *)
(* is one atomic step; every read of the table outside the mutex (a NULL   *)
(* check, an index check against the size, the size read by Add) is a step *)
(* of its own.  A table pointer is the id of a heap block (0 for NULL); a  *)
(* block's contents are the records of its objects.                       *)
(***************************************************************************)
EXTENDS Integers, Sequences, FiniteSets

CONSTANTS
    MaxPriority,  \* BACNET_MAX_PRIORITY
    Calls,        \* Calls[t]: the table calls thread t makes, in order
    AllocMayFail  \* whether calloc / realloc may return NULL

AO == INSTANCE AnalogOutput

Threads == {"main", "lua"}

Tables == {"ao", "bo", "acc", "piv"}

\* The properties a ReadProperty request can ask for, grouped by what the
\* X_Read_Property handlers read to answer them: "other" stands for every
\* property answered with a constant (Object_Type, Event_State, ...).
Props == {"name", "pv", "oos", "scale", "units", "pa_all", "pa_idx", "other"}

\* The calls of the Lua bindings, populate_sim and the WriteProperty and
\* ReadProperty handlers: create objects, command / relinquish / read a
\* Present Value, set a name, a Binary Output Present Value write (val =
\* BinaryNull for a NULL write), an Out_Of_Service write (Positive Integer
\* Value, Analog Output, Binary Output), a ReadProperty of one property (pa_idx: a Priority_Array element
\* 1..16).
Call == [tb : Tables, op : {"add"}, n : Nat]
        \cup [tb : Tables, op : {"set", "wp"}, inst : Nat, val : Nat, prio : Nat]
        \cup [tb : Tables, op : {"relinquish"}, inst : Nat, prio : Nat]
        \cup [tb : Tables, op : {"get", "name", "oos"}, inst : Nat]
        \cup [tb : Tables, op : {"rp"}, inst : Nat, prop : Props]

ASSUME /\ MaxPriority \in Nat \ {0}
       /\ Calls \in [Threads -> Seq(Call)]
       /\ AllocMayFail \in BOOLEAN

\* Objects added, and Add calls made, by a sequence of calls.
RECURSIVE Added(_), AddCalls(_)
Added(s) == IF s = <<>> THEN 0
            ELSE (IF Head(s).op = "add" THEN Head(s).n ELSE 0) + Added(Tail(s))
AddCalls(s) == IF s = <<>> THEN 0
               ELSE (IF Head(s).op = "add" THEN 1 ELSE 0) + AddCalls(Tail(s))

\* Upper bounds of a table's size and of the number of blocks allocated.
MaxSize == Added(Calls["main"]) + Added(Calls["lua"])
MaxBlocks == AddCalls(Calls["main"]) + AddCalls(Calls["lua"])

\* Contents of memory realloc has not initialised: a Level byte or
\* Present_Value that is Wild reads as some value; a Name that is "wild"
\* is an indeterminate pointer.
Wild == -1

\* BINARY_NULL, the Level of a relinquished Binary Output priority.
BinaryNull == 255

Names == {"null", "heap", "wild"}

\* One object record: Level[] (ao, bo), Present_Value (acc, piv), Name.
\* Units, Scale and Out_Of_Service are left out: no property tells their values apart.
Elem == [lvl : [AO!Priorities -> (0..255) \cup {Wild}],
         pv  : Nat \cup {Wild},
         name : Names]

Faults == {"none", "null", "bounds", "uaf", "wildfree", "wildread"}

Labels == {"call", "free_check", "free", "alloc", "init_check", "init",
           "realloc", "name_null", "name_check", "name_store", "pv_check",
           "pv_store", "check", "access", "wp_check", "wp_ptr", "wp_store",
           "rp", "done", "join", "exit", "sp_check", "props_check", "props_store"}

VARIABLES
    blk,         \* blk[tb]: the table pointer (X_Descr), 0 for NULL
    size,        \* size[tb]: X_Descr_Size
    tab,         \* tab[tb][i]: the record X_Descr[i] of the current block
    initialized, \* initialized[tb]: the once-only flag of Objects_Init
    nextBlk,     \* id the next successful calloc / moving realloc returns
    freed,       \* ids of the blocks passed to free() (or moved by realloc)
    doubleFree,  \* some block has been passed to free() twice
    fault,       \* the memory error that ended the process, or "none"
    pc,          \* pc[t]: where thread t is
    k,           \* k[t]: index in Calls[t] of the call thread t is making
    tgt,         \* tgt[t]: new_size of the Add thread t is making
    j,           \* j[t]: the object Add's loop is initialising (prev_size first)
    cav          \* cav[t]: the block CurrentAV points into (piv Write_Property)

vars == <<blk, size, tab, initialized, nextBlk, freed, doubleFree, fault,
          pc, k, tgt, j, cav>>

TypeOK ==
    /\ blk \in [Tables -> 0..MaxBlocks]
    /\ size \in [Tables -> 0..MaxSize]
    /\ \A tb \in Tables : \E n \in 0..MaxSize : tab[tb] \in [0..(n - 1) -> Elem]
    /\ \A i \in DOMAIN tab["ao"] : tab["ao"][i].lvl \in [AO!Priorities -> AO!Levels]
    /\ initialized \in [Tables -> BOOLEAN]
    /\ nextBlk \in 1..(MaxBlocks + 1)
    /\ freed \subseteq 1..MaxBlocks
    /\ doubleFree \in BOOLEAN
    /\ fault \in Faults
    /\ pc \in [Threads -> Labels]
    /\ k \in [Threads -> Nat \ {0}]
    /\ tgt \in [Threads -> 0..MaxSize]
    /\ j \in [Threads -> 0..MaxSize]
    /\ cav \in [Threads -> 0..MaxBlocks]

\* Static initialisers: every X_Descr = NULL, X_Descr_Size = 0, and the
\* Objects_Init flags false.
Init ==
    /\ blk = [tb \in Tables |-> 0]
    /\ size = [tb \in Tables |-> 0]
    /\ tab = [tb \in Tables |-> <<>>]
    /\ initialized = [tb \in Tables |-> FALSE]
    /\ nextBlk = 1 /\ freed = {} /\ doubleFree = FALSE /\ fault = "none"
    /\ pc = [t \in Threads |-> IF Calls[t] = <<>> THEN "done" ELSE "call"]
    /\ k = [t \in Threads |-> 1]
    /\ tgt = [t \in Threads |-> 0]
    /\ j = [t \in Threads |-> 0]
    /\ cav = [t \in Threads |-> 0]

-----------------------------------------------------------------------------
(* Helpers.                                                                *)

Cur(t) == Calls[t][k[t]]

Tb(t) == Cur(t).tb

\* Thread t goes on at label l of the call it is making.
Jump(t, l) == pc' = [pc EXCEPT ![t] = l] /\ UNCHANGED <<k, j>>

\* The call returns; the thread goes on with its next call.
Return(t) ==
    /\ k' = [k EXCEPT ![t] = @ + 1]
    /\ pc' = [pc EXCEPT ![t] = IF k[t] + 1 > Len(Calls[t]) THEN "done" ELSE "call"]
    /\ UNCHANGED j

\* A locked access went wrong: the process is gone, the thread stays put.
Crash(kind) == fault' = kind /\ UNCHANGED <<pc, k, j, tab>>

\* X_Instance_To_Index followed by `index < X_Descr_Size'.
InstanceValid(tb, inst) == inst < size[tb]

\* What a locked access of X_Descr[i] goes through: NULL, memory past the
\* block, or the object.
Reach(tb, i) ==
    IF blk[tb] = 0 THEN "null" ELSE IF i >= size[tb] THEN "bounds" ELSE "none"

\* Records as calloc leaves them (all bytes 0) and as realloc leaves the
\* ones it appends (indeterminate).
CallocElem == [lvl |-> [p \in AO!Priorities |-> 0], pv |-> 0, name |-> "null"]
WildElem == [lvl |-> [p \in AO!Priorities |-> Wild], pv |-> Wild, name |-> "wild"]

\* The priority array Objects_Init writes: AO_LEVEL_NULL / BINARY_NULL.
NullLevels(tb) ==
    IF tb = "ao" THEN AO!NullArray ELSE [p \in AO!Priorities |-> BinaryNull]

\* Seeded fault: Present_Value_Set without the 0.0 .. 100.0 range check.
AoSetAcceptedNoRange(c) == AO!WritablePriority(c.prio)

\* Analog_Output_Present_Value_Set's argument checks.
AoSetAccepted(c) == AO!SetAccepted(c.val, 1, c.prio)

\* Analog_Output_Write_Property of Present_Value: a REAL goes to
\* Present_Value_Set (whose checks refuse priority 6, answered
\* WRITE_ACCESS_DENIED), a NULL to Present_Value_Relinquish.
AoWriteAccepted(c) ==
    IF c.op = "relinquish" THEN AO!WritablePriority(c.prio) ELSE AoSetAccepted(c)

\* Where an Out_Of_Service write goes: Positive_Integer_Value_Write_Property
\* checks the index and stores through the pointer it read
\* (WpCheck .. WpStore); Analog_Output_Write_Property calls
\* Out_Of_Service_Set, an index check and a locked store, and
\* Binary_Output_Write_Property stores under the lock at the index it got.
OosEntry(tb) == IF tb = "piv" THEN "wp_check" ELSE "check"

\* The argument checks each call makes before the lock.  Present_Value
\* reads, and the Accumulator and Positive Integer Value Present_Value_Set,
\* take any argument; Binary_Output_Present_Value_Set checks the priority
\* only; Binary_Output_Write_Property also refuses priority 6 and values
\* above MAX_BINARY_PV unless the value is NULL.
ArgsAccepted(c) ==
    CASE c.tb = "ao" /\ c.op \in {"set", "relinquish"} -> AoWriteAccepted(c)
      [] c.tb = "bo" /\ c.op = "set"        -> c.prio \in 1..MaxPriority
      [] c.tb = "bo" /\ c.op = "wp"         ->
            /\ c.prio \in 1..MaxPriority
            /\ c.val = BinaryNull \/ (c.prio # 6 /\ c.val <= 1)
      [] OTHER                              -> TRUE

\* The locked store of each call into X_Descr[index]: a Level (the Lua
\* binding of Binary Outputs converts its number to uint8_t), AO_LEVEL_NULL,
\* or the Present_Value; a read stores nothing, and
\* Out_Of_Service is a field the records leave out.
Store(e, c) ==
    CASE c.op \in {"get", "oos"} -> e
      [] c.op = "relinquish" -> [e EXCEPT !.lvl[c.prio] = AO!AoLevelNull]
      [] c.tb = "ao"         -> [e EXCEPT !.lvl[c.prio] = c.val]
      [] c.tb = "bo"         -> [e EXCEPT !.lvl[c.prio] = c.val % 256]
      [] OTHER               -> [e EXCEPT !.pv = c.val]

\* Where Add's per-object loop starts: Name_Set (bo), or the locked
\* `Name = NULL' before Set_Properties (acc, piv).
LoopHead(tb) == IF tb = "bo" THEN "name_check" ELSE "name_null"

\* `for (i = prev_size; i < new_size; i++)', entered with j[t] = prev_size.
LoopFrom(t) == IF j[t] < tgt[t] THEN Jump(t, LoopHead(Tb(t))) ELSE Return(t)

\* The loop's i++ and its test.
NextObject(t) ==
    IF j[t] + 1 < tgt[t]
    THEN /\ j' = [j EXCEPT ![t] = @ + 1]
         /\ pc' = [pc EXCEPT ![t] = LoopHead(Tb(t))]
         /\ UNCHANGED k
    ELSE Return(t)

(* A ReadProperty request is the sequence of table accesses its handler   *)
(* makes, each a step of its own:                                         *)
(*   "chk"  the unlocked `index < X_Descr_Size' (false: the call returns); *)
(*   "rd"   a locked read of a field of X_Descr[index];                    *)
(*   "name" a locked read of the string X_Descr[index].Name;               *)
(*   "ptr"  the locked CurrentAV = &X_Descr[index];                        *)
(*   "cav"  an unlocked read of a field through CurrentAV.                 *)

\* X_Present_Value, X_Out_Of_Service, Accumulator_Scale_Integer: the index
\* check, then the locked read.
IndexedRead == <<"chk", "rd">>

\* X_Object_Name: the index check, then under the lock `NULL != Name' and
\* snprintf of the Name.
NameRead == <<"chk", "name">>

\* Analog_Output_Read_Property.  Status_Flags reads Out_Of_Service; a
\* whole Priority_Array takes and releases the mutex once per element,
\* one element takes it once; neither checks object_index.
RpAo(p) ==
    CASE p = "name"          -> NameRead
      [] p \in {"pv", "oos"} -> IndexedRead
      [] p = "pa_all"        -> [i \in 1..MaxPriority |-> "rd"]
      [] p = "pa_idx"        -> <<"rd">>
      [] OTHER               -> <<>>

\* Binary_Output_Read_Property.  Out_Of_Service and the Priority_Array are
\* read under the mutex without an index check, the whole array in one
\* locked region.
RpBo(p) ==
    CASE p = "name"                        -> NameRead
      [] p = "pv"                          -> IndexedRead
      [] p \in {"oos", "pa_all", "pa_idx"} -> <<"rd">>
      [] OTHER                             -> <<>>

\* Accumulator_Read_Property: Present_Value and Scale through their
\* accessors; Out_Of_Service and Units are constants.
RpAcc(p) ==
    CASE p = "name"           -> NameRead
      [] p \in {"pv", "scale"} -> IndexedRead
      [] OTHER                -> <<>>

\* PositiveInteger_Value_Read_Property: the index check and the locked
\* CurrentAV = &PIV_Descr[object_index] come first; Status_Flags, Units
\* and Out_Of_Service are then read through CurrentAV after the unlock.
RpPiv(p) ==
    <<"chk", "ptr">> \o
    CASE p = "name"                  -> NameRead
      [] p = "pv"                    -> IndexedRead
      [] p \in {"oos", "units"}      -> <<"cav">>
      [] OTHER                       -> <<>>

\* Device dispatch: X_Valid_Instance, then X_Read_Property.
RpPlan(c) ==
    <<"chk">> \o CASE c.tb = "ao"  -> RpAo(c.prop)
                   [] c.tb = "bo"  -> RpBo(c.prop)
                   [] c.tb = "acc" -> RpAcc(c.prop)
                   [] OTHER        -> RpPiv(c.prop)

\* The access thread t's ReadProperty makes next.
RpAccess(t) == RpPlan(Cur(t))[j[t] + 1]

\* On to the next access, or the handler returns.
RpNext(t) ==
    IF j[t] + 1 < Len(RpPlan(Cur(t)))
    THEN j' = [j EXCEPT ![t] = @ + 1] /\ UNCHANGED <<pc, k>>
    ELSE Return(t)

-----------------------------------------------------------------------------
(* Actions of thread t.                                                    *)

\* Entry of a call.  X_Add reads X_Descr_Size unlocked for prev_size and
\* new_size (Analog_Output_Add passes AO_Descr_Size + count to Resize);
\* Name_Set starts at its NULL check, ReadProperty at its first access,
\* the others at their index check.
StartCall(t) ==
    /\ pc[t] = "call"
    /\ LET c == Cur(t) IN
       CASE c.op = "add" ->
              /\ tgt' = [tgt EXCEPT ![t] = size[c.tb] + c.n]
              /\ j' = [j EXCEPT ![t] = size[c.tb]]
              /\ pc' = [pc EXCEPT ![t] = IF c.tb = "ao" THEN "free_check" ELSE "realloc"]
              /\ UNCHANGED k
         [] c.op = "name" ->
              /\ j' = [j EXCEPT ![t] = c.inst]
              /\ pc' = [pc EXCEPT ![t] = "name_check"]
              /\ UNCHANGED <<k, tgt>>
         [] c.op = "oos" -> Jump(t, OosEntry(c.tb)) /\ UNCHANGED tgt
         [] c.op = "rp" ->
              /\ j' = [j EXCEPT ![t] = 0]
              /\ pc' = [pc EXCEPT ![t] = "rp"]
              /\ UNCHANGED <<k, tgt>>
         [] OTHER -> Jump(t, "check") /\ UNCHANGED tgt
    /\ UNCHANGED <<blk, size, tab, initialized, nextBlk, freed, doubleFree, fault, cav>>

\* Analog_Output_Free: `if (NULL == AO_Descr) return;' before the lock.
FreeCheck(t) ==
    /\ pc[t] = "free_check"
    /\ Jump(t, IF blk["ao"] = 0 THEN "alloc" ELSE "free")
    /\ UNCHANGED <<blk, size, tab, initialized, nextBlk, freed, doubleFree, fault, tgt, cav>>

\* Seeded fault: the block is freed but AO_Descr is not reset to NULL.
FreeNoReset(t) ==
    /\ pc[t] = "free"
    /\ freed' = freed \cup ({blk["ao"]} \ {0})
    /\ doubleFree' = (doubleFree \/ blk["ao"] \in freed)
    /\ size' = [size EXCEPT !["ao"] = 0] /\ tab' = [tab EXCEPT !["ao"] = <<>>]
    /\ Jump(t, "alloc")
    /\ UNCHANGED <<blk, initialized, nextBlk, fault, tgt, cav>>

\* Analog_Output_Free, locked part: free the names and the block
\* (free(NULL) is a no-op), AO_Descr = NULL, AO_Descr_Size = 0.
Free(t) ==
    /\ pc[t] = "free"
    /\ freed' = freed \cup ({blk["ao"]} \ {0})
    /\ doubleFree' = (doubleFree \/ blk["ao"] \in freed)
    /\ blk' = [blk EXCEPT !["ao"] = 0]
    /\ size' = [size EXCEPT !["ao"] = 0] /\ tab' = [tab EXCEPT !["ao"] = <<>>]
    /\ Jump(t, "alloc")
    /\ UNCHANGED <<initialized, nextBlk, fault, tgt, cav>>

\* Analog_Output_Alloc(new_size), locked: AO_Descr = calloc(...); the size
\* is only updated when calloc succeeds.
Alloc(t) ==
    /\ pc[t] = "alloc"
    /\ \/ /\ blk' = [blk EXCEPT !["ao"] = nextBlk]
          /\ nextBlk' = nextBlk + 1
          /\ size' = [size EXCEPT !["ao"] = tgt[t]]
          /\ tab' = [tab EXCEPT !["ao"] = [i \in 0..(tgt[t] - 1) |-> CallocElem]]
       \/ /\ AllocMayFail
          /\ blk' = [blk EXCEPT !["ao"] = 0]     \* calloc returned NULL
          /\ UNCHANGED <<nextBlk, size, tab>>
    /\ Jump(t, "init_check")
    /\ UNCHANGED <<initialized, freed, doubleFree, fault, tgt, cav>>

\* X_Add, locked: tmp = realloc(X_Descr, new_size records).  On NULL the
\* call unlocks and returns; otherwise X_Descr_Size = new_size and
\* X_Descr = tmp.  realloc keeps the first min(old, new) records, leaves
\* the appended ones indeterminate, and either grows the block in place or
\* moves it to a new block and frees the old one (realloc(NULL) mallocs).
\* Then bo runs Objects_Init, acc and piv enter their per-object loop.
Realloc(t) ==
    /\ pc[t] = "realloc"
    /\ LET tb == Tb(t) IN
       \/ \E moved \in IF blk[tb] = 0 THEN {TRUE} ELSE BOOLEAN :
            /\ blk' = [blk EXCEPT ![tb] = IF moved THEN nextBlk ELSE @]
            /\ nextBlk' = IF moved THEN nextBlk + 1 ELSE nextBlk
            /\ freed' = IF moved THEN freed \cup ({blk[tb]} \ {0}) ELSE freed
            /\ doubleFree' = (doubleFree \/ (moved /\ blk[tb] \in freed))
            /\ size' = [size EXCEPT ![tb] = tgt[t]]
            /\ tab' = [tab EXCEPT ![tb] =
                         [i \in 0..(tgt[t] - 1) |->
                            IF i < size[tb] THEN tab[tb][i] ELSE WildElem]]
            /\ IF tb = "bo" THEN Jump(t, "init_check") ELSE LoopFrom(t)
       \/ /\ AllocMayFail
          /\ Return(t)
          /\ UNCHANGED <<blk, nextBlk, freed, doubleFree, size, tab>>
    /\ UNCHANGED <<initialized, fault, tgt, cav>>

\* X_Objects_Init (ao, bo): `if (!initialized)' and the flag set, both
\* outside the lock; only the first call does the loop.  Analog_Output_Add
\* returns after it, Binary_Output_Add goes on with its Name_Set loop.
InitCheck(t) ==
    /\ pc[t] = "init_check"
    /\ IF initialized[Tb(t)]
       THEN IF Tb(t) = "ao" THEN Return(t) ELSE LoopFrom(t)
       ELSE Jump(t, "init")
    /\ initialized' = [initialized EXCEPT ![Tb(t)] = TRUE]
    /\ UNCHANGED <<blk, size, tab, nextBlk, freed, doubleFree, fault, tgt, cav>>

\* X_Objects_Init, locked loop over X_Descr_Size objects: every Level to
\* AO_LEVEL_NULL / BINARY_NULL and every Name to NULL.
ObjectsInit(t) ==
    /\ pc[t] = "init"
    /\ LET tb == Tb(t) IN
       IF blk[tb] = 0 /\ size[tb] > 0
       THEN Crash("null")
       ELSE /\ tab' = [tab EXCEPT ![tb] =
                         [i \in DOMAIN tab[tb] |->
                            [tab[tb][i] EXCEPT !.lvl = NullLevels(tb), !.name = "null"]]]
            /\ UNCHANGED fault
            /\ IF tb = "ao" THEN Return(t) ELSE LoopFrom(t)
    /\ UNCHANGED <<blk, size, initialized, nextBlk, freed, doubleFree, tgt, cav>>

\* Accumulator_Add / PositiveInteger_Value_Add, loop body, locked:
\* X_Descr[i].Name = NULL, with no check of i against X_Descr_Size.
NameNull(t) ==
    /\ pc[t] = "name_null"
    /\ LET tb == Tb(t) IN
       IF Reach(tb, j[t]) # "none"
       THEN Crash(Reach(tb, j[t]))
       ELSE /\ tab' = [tab EXCEPT ![tb][j[t]].name = "null"]
            /\ UNCHANGED fault
            /\ Jump(t, "sp_check")
    /\ UNCHANGED <<blk, size, initialized, nextBlk, freed, doubleFree, tgt, cav>>

\* X_Set_Properties (acc, piv), entry: `if (index >= X_Descr_Size)
\* return;', unlocked; a failed check moves Add's loop on.
SpCheck(t) ==
    /\ pc[t] = "sp_check"
    /\ IF InstanceValid(Tb(t), j[t]) THEN Jump(t, "name_check") ELSE NextObject(t)
    /\ UNCHANGED <<blk, size, tab, initialized, nextBlk, freed, doubleFree, fault, tgt, cav>>

\* X_Name_Set before the lock: `if (NULL == X_Descr) return false;' and
\* `if (index >= X_Descr_Size) return false;'.  A failed check ends a Lua
\* name call, moves Binary_Output_Add's loop on to the next object, and
\* leaves Set_Properties to go on with Present_Value_Set.
NameCheck(t) ==
    /\ pc[t] = "name_check"
    /\ IF blk[Tb(t)] # 0 /\ InstanceValid(Tb(t), j[t])
       THEN Jump(t, "name_store")
       ELSE CASE Cur(t).op = "name" -> Return(t)
              [] Tb(t) = "bo"      -> NextObject(t)
              [] OTHER             -> Jump(t, "pv_check")
    /\ UNCHANGED <<blk, size, tab, initialized, nextBlk, freed, doubleFree, fault, tgt, cav>>

\* X_Name_Set, locked: free(X_Descr[index].Name), then Name = calloc(...)
\* and strcpy.  Freeing an indeterminate Name is undefined: the bytes may
\* happen to be NULL (free(NULL) is a no-op) or not (the heap is corrupt).
\* Binary_Output_Add goes on with the next object, Set_Properties with
\* Present_Value_Set.
NameStore(t) ==
    /\ pc[t] = "name_store"
    /\ LET tb == Tb(t)
           i  == j[t]
       IN
       IF Reach(tb, i) # "none"
       THEN Crash(Reach(tb, i))
       ELSE \/ /\ tab[tb][i].name = "wild"
               /\ Crash("wildfree")
            \/ /\ tab' = [tab EXCEPT ![tb][i].name = "heap"]
               /\ UNCHANGED fault
               /\ CASE Cur(t).op = "name" -> Return(t)
                    [] tb = "bo"          -> NextObject(t)
                    [] OTHER              -> Jump(t, "pv_check")
    /\ UNCHANGED <<blk, size, initialized, nextBlk, freed, doubleFree, tgt, cav>>

\* What Set_Properties does after Present_Value_Set, whether it stored or
\* not: Accumulator_Scale_Integer_Set, or PIV's locked store of Units and
\* Out_Of_Service.
AfterPv(tb) == IF tb = "acc" THEN "props_check" ELSE "props_store"

\* Present_Value_Set(i, i) from Set_Properties (acc, piv): the unlocked
\* `object_instance < X_Descr_Size'.
PvCheck(t) ==
    /\ pc[t] = "pv_check"
    /\ Jump(t, IF InstanceValid(Tb(t), j[t]) THEN "pv_store" ELSE AfterPv(Tb(t)))
    /\ UNCHANGED <<blk, size, tab, initialized, nextBlk, freed, doubleFree, fault, tgt, cav>>

\* ... and its locked X_Descr[i].Present_Value = i; the loop goes on.
PvStore(t) ==
    /\ pc[t] = "pv_store"
    /\ LET tb == Tb(t) IN
       IF Reach(tb, j[t]) # "none"
       THEN Crash(Reach(tb, j[t]))
       ELSE /\ tab' = [tab EXCEPT ![tb][j[t]].pv = j[t]]
            /\ UNCHANGED fault
            /\ Jump(t, AfterPv(tb))
    /\ UNCHANGED <<blk, size, initialized, nextBlk, freed, doubleFree, tgt, cav>>

\* Accumulator_Scale_Integer_Set(i, 10): `object_instance < Acc_Descr_Size',
\* unlocked.
PropsCheck(t) ==
    /\ pc[t] = "props_check"
    /\ IF InstanceValid(Tb(t), j[t]) THEN Jump(t, "props_store") ELSE NextObject(t)
    /\ UNCHANGED <<blk, size, tab, initialized, nextBlk, freed, doubleFree, fault, tgt, cav>>

\* The locked store of Scale (acc), or of Units and Out_Of_Service through
\* the index PIV's Set_Properties checked on entry, with no check since;
\* the fields are not in the records, only the access is.  The loop goes on.
PropsStore(t) ==
    /\ pc[t] = "props_store"
    /\ IF Reach(Tb(t), j[t]) # "none"
       THEN Crash(Reach(Tb(t), j[t]))
       ELSE UNCHANGED <<fault, tab>> /\ NextObject(t)
    /\ UNCHANGED <<blk, size, initialized, nextBlk, freed, doubleFree, tgt, cav>>

\* Present_Value_Set / _Relinquish / Present_Value / Out_Of_Service_Set
\* before the lock: the instance and argument checks; a failed check
\* returns.  Binary_Output_Write_Property has no index check of its own:
\* it stores at Binary_Output_Instance_To_Index's result, which is the
\* instance because the device object's Write_Property dispatch has just
\* checked Binary_Output_Valid_Instance (the two unlocked reads are one
\* step here).
IndexCheck(t) ==
    /\ pc[t] = "check"
    /\ IF InstanceValid(Tb(t), Cur(t).inst) /\ ArgsAccepted(Cur(t))
       THEN Jump(t, "access")
       ELSE Return(t)
    /\ UNCHANGED <<blk, size, tab, initialized, nextBlk, freed, doubleFree, fault, tgt, cav>>

\* The locked access of X_Descr[index], through whatever X_Descr is now.
Access(t) ==
    /\ pc[t] = "access"
    /\ LET tb == Tb(t)
           i  == Cur(t).inst
       IN
       IF Reach(tb, i) # "none"
       THEN Crash(Reach(tb, i))
       ELSE /\ tab' = [tab EXCEPT ![tb][i] = Store(@, Cur(t))]
            /\ UNCHANGED fault
            /\ Return(t)
    /\ UNCHANGED <<blk, size, initialized, nextBlk, freed, doubleFree, tgt, cav>>

\* PositiveInteger_Value_Write_Property of Out_Of_Service (a well-formed
\* request): `if (object_index < PIV_Descr_Size)' unlocked, else return.
WpCheck(t) ==
    /\ pc[t] = "wp_check"
    /\ IF InstanceValid("piv", Cur(t).inst) THEN Jump(t, "wp_ptr") ELSE Return(t)
    /\ UNCHANGED <<blk, size, tab, initialized, nextBlk, freed, doubleFree, fault, tgt, cav>>

\* ... locked: CurrentAV = &PIV_Descr[object_index]; unlock.
WpPtr(t) ==
    /\ pc[t] = "wp_ptr"
    /\ cav' = [cav EXCEPT ![t] = blk["piv"]]
    /\ Jump(t, "wp_store")
    /\ UNCHANGED <<blk, size, tab, initialized, nextBlk, freed, doubleFree, fault, tgt>>

\* ... unlocked: CurrentAV->Out_Of_Service = value, into the block
\* CurrentAV was taken from, freed if a realloc has moved the table since.
WpStore(t) ==
    /\ pc[t] = "wp_store"
    /\ IF cav[t] \in freed
       THEN Crash("uaf")
       ELSE UNCHANGED fault /\ Return(t)
    /\ UNCHANGED <<blk, size, tab, initialized, nextBlk, freed, doubleFree, tgt, cav>>

\* ReadProperty: an unlocked index check.
RpCheck(t) ==
    /\ pc[t] = "rp" /\ RpAccess(t) = "chk"
    /\ IF InstanceValid(Tb(t), Cur(t).inst) THEN RpNext(t) ELSE Return(t)
    /\ UNCHANGED <<blk, size, tab, initialized, nextBlk, freed, doubleFree, fault, tgt, cav>>

\* ReadProperty: a locked read of X_Descr[index] through the current table.
RpRead(t) ==
    /\ pc[t] = "rp" /\ RpAccess(t) = "rd"
    /\ LET r == Reach(Tb(t), Cur(t).inst) IN
       IF r # "none" THEN Crash(r) ELSE UNCHANGED fault /\ RpNext(t)
    /\ UNCHANGED <<blk, size, tab, initialized, nextBlk, freed, doubleFree, tgt, cav>>

\* ReadProperty: X_Object_Name's locked snprintf of the Name.  An
\* indeterminate Name may point anywhere: the read may fault or not.
RpName(t) ==
    /\ pc[t] = "rp" /\ RpAccess(t) = "name"
    /\ LET tb == Tb(t)
           i  == Cur(t).inst
       IN
       IF Reach(tb, i) # "none"
       THEN Crash(Reach(tb, i))
       ELSE \/ /\ tab[tb][i].name = "wild"
               /\ Crash("wildread")
            \/ UNCHANGED fault /\ RpNext(t)
    /\ UNCHANGED <<blk, size, tab, initialized, nextBlk, freed, doubleFree, tgt, cav>>

\* ReadProperty: the locked CurrentAV = &PIV_Descr[object_index].
RpPtr(t) ==
    /\ pc[t] = "rp" /\ RpAccess(t) = "ptr"
    /\ cav' = [cav EXCEPT ![t] = blk[Tb(t)]]
    /\ RpNext(t)
    /\ UNCHANGED <<blk, size, tab, initialized, nextBlk, freed, doubleFree, fault, tgt>>

\* ReadProperty: the unlocked read through CurrentAV, into a freed block
\* if a realloc has moved the table since the pointer was taken.
RpCav(t) ==
    /\ pc[t] = "rp" /\ RpAccess(t) = "cav"
    /\ IF cav[t] \in freed THEN Crash("uaf") ELSE UNCHANGED fault /\ RpNext(t)
    /\ UNCHANGED <<blk, size, tab, initialized, nextBlk, freed, doubleFree, tgt, cav>>

\* cleanup(), entered between two calls of main: when SIGINT clears
\* running and the main loop ends, or when the Lua Update() hook (or
\* init_update) fails.  datalink_cleanup leaves the tables alone; then
\* simulated_cleanup joins the Lua thread.
Shutdown ==
    /\ pc["main"] \in {"call", "done"}
    /\ pc' = [pc EXCEPT !["main"] = "join"]
    /\ UNCHANGED <<blk, size, tab, initialized, nextBlk, freed, doubleFree, fault,
                   k, tgt, j, cav>>

\* The tables whose X_Free passes `if (NULL == X_Descr) return;'.
Live == {tb \in Tables : blk[tb] # 0}

\* X_Free of the tables Live, locked (nothing else runs by now): free()
\* of every Name and of the block, X_Descr = NULL, X_Descr_Size = 0.
FreeTables ==
    /\ freed' = freed \cup {blk[tb] : tb \in Live}
    /\ doubleFree' = (doubleFree \/ \E tb \in Live : blk[tb] \in freed)
    /\ blk' = [tb \in Tables |-> 0]
    /\ size' = [tb \in Tables |-> IF tb \in Live THEN 0 ELSE size[tb]]
    /\ tab' = [tb \in Tables |-> IF tb \in Live THEN <<>> ELSE tab[tb]]

\* pthread_join returns once Run() has; Device_Cleanup then calls every
\* X_Cleanup = X_Free.  A Name still indeterminate is a free() of a wild
\* pointer.
Cleanup ==
    /\ pc["main"] = "join" /\ pc["lua"] = "done"
    /\ IF \E tb \in Live : \E i \in DOMAIN tab[tb] : tab[tb][i].name = "wild"
       THEN /\ fault' = "wildfree"
            /\ UNCHANGED <<blk, size, tab, freed, doubleFree, pc>>
       ELSE /\ FreeTables
            /\ pc' = [pc EXCEPT !["main"] = "exit"]
            /\ UNCHANGED fault
    /\ UNCHANGED <<initialized, nextBlk, k, tgt, j, cav>>

\* Once a thread has faulted, or cleanup() has run, the process is gone;
\* when every call is made the main loop keeps running without touching
\* the tables.
Idle ==
    /\ \/ fault # "none"
       \/ pc["main"] = "exit"
       \/ \A t \in Threads : pc[t] = "done"
    /\ UNCHANGED vars

Step(t) ==
    \/ StartCall(t) \/ FreeCheck(t) \/ Free(t) \/ Alloc(t) \/ Realloc(t)
    \/ InitCheck(t) \/ ObjectsInit(t) \/ NameNull(t) \/ NameCheck(t)
    \/ SpCheck(t) \/ NameStore(t) \/ PvCheck(t) \/ PvStore(t) \/ PropsCheck(t)
    \/ PropsStore(t) \/ IndexCheck(t) \/ Access(t)
    \/ WpCheck(t) \/ WpPtr(t) \/ WpStore(t)
    \/ RpCheck(t) \/ RpRead(t) \/ RpName(t) \/ RpPtr(t) \/ RpCav(t)

Next ==
    \/ fault = "none" /\ \E t \in Threads : Step(t)
    \/ fault = "none" /\ (Shutdown \/ Cleanup)
    \/ Idle

Spec == Init /\ [][Next]_vars

-----------------------------------------------------------------------------
(* Properties.                                                             *)

\* No block is handed to free() twice: not by two Analog_Output_Add calls
\* running Analog_Output_Free at once (populate_sim in the main thread,
\* createAnalogOutputs in the Lua thread; Free reads AO_Descr again under
\* the mutex), and not by a realloc that moves a table another Add has
\* already moved.
NoDoubleFree == ~doubleFree

\* No locked access of a table (Present_Value_Set, _Relinquish,
\* Present_Value, Objects_Init, Name_Set, Add's initialisation loop, the
\* ReadProperty handlers) goes through a NULL pointer or past
\* X_Descr_Size, no Name_Set frees and no Object_Name reads an
\* indeterminate Name, and no Write_Property or Read_Property goes through
\* a CurrentAV into a block realloc has freed.
MemorySafe == fault = "none"

=============================================================================
