# TLA+ models of the BACnet server (bacnet-stack-1)

This directory holds TLA+ models of the parts of the BACnet/IP server under
`src/` that keep state across calls. It also holds the TLC configurations that
check them. Every definition is translated from the C source. `PROJECT.json`
maps each definition to the lines it models.

## The system and how its parts interact

The server (`src/apps/server/main.c`) runs two threads.

- **BACnet thread.** Its main loop receives datagrams through BVLC, the
  BACnet/IP virtual link control in `src/bacnet-stack/src/bvlc.c`. It
  dispatches the requests to the object handlers. Once per elapsed second it
  runs three timers:
  - the Load Control state machine (`lc.c`, line 908);
  - the transaction state machine (`tsm.c`, line 911), with
    `elapsed_seconds * 1000` milliseconds, where `elapsed_seconds` is the
    `uint32_t` difference of two `time(NULL)` readings and the product is
    passed to a `uint16_t` parameter;
  - the BVLC foreign-device timer.
- **Lua thread.** It sets the Analog Output (`ao.c`), Binary Output (`bo.c`),
  Accumulator (`acc.c`) and Positive Integer Value (`piv.c`) objects. It also
  resizes their tables. Each table is guarded by its own mutex.

The parts interact in two places:

- **Load Control and Analog Output.** Load Control object *i* sheds load by
  commanding Analog Output *i* at priority 4. It judges compliance by reading
  that output's priority array. Clients, and the Lua thread, write the same
  array at other priorities.
- **TSM and the main loop.** Client requests allocate TSM invoke-IDs. The main
  loop drives their retries and timeouts.
- **BVLC between two nodes.** What one node's `bvlc_send_pdu` puts on the wire
  (the I-Am broadcast at startup, a TSM retransmission) is what another
  node's `bvlc_receive` takes apart.

## Modules

| Module | Models | Source |
|---|---|---|
| `TsmAbstract` | The lifecycle every invoke-ID of a peer goes through: free, allocated, awaiting confirmation, failed. | spec.md 4.2 |
| `Tsm` | The per-peer slot table, with one action per operation that changes it. | `tsm.c` |
| `MC_Tsm` | The constants for TLC. | |
| `AnalogOutput` | The 16-level priority array of one Analog Output, as operators. Load Control and the client writes use them. | `ao.c` |
| `LoadControl` | The table of Load Control objects, their Analog Outputs, `Current_Time` and the wall clock. | `lc.c`, `ao.c` |
| `MC_LoadControl` | Small sets of client requests, start times and AO commands. | |
| `Bvlc` | `bvlc_receive` over the static `Rx_Buf` that `main.c` passes to it, and `bvlc_send_pdu` of the node that sends to it. | `bvlc.c`, `main.c` |
| `MC_Bvlc` | The datagram sets, one for each question, and the PDU lengths the sender is called with. | |
| `ObjectTable` | The Analog Output, Binary Output, Accumulator and Positive Integer Value tables shared by the main thread and the Lua `Run()` thread: their Add, Name_Set, Present Value stores and reads, and the Write_Property and Read_Property paths that touch the table, one step per mutex region and per unlocked read. | `ao.c`, `bo.c`, `acc.c`, `piv.c`, `main.c` |
| `MC_ObjectTable` | The calls each thread makes: `populate_sim` plus client writes and reads, and a Lua script (a second script for the memory run). | |

### Tsm

State:
- `tsm[d][i]` is slot *i* of peer *d*'s `TSM_List`. It holds `InvokeID`,
  `state`, `RetryCount` and `RequestTimer`. Its `apdu` field records which
  transaction's PDU is stored in it.
- `currentInvokeId[d]` is `Current_Invoke_ID`.
- Two history variables: `elapsed`, the wall-clock milliseconds since the
  slot was last armed, and `armed`.
- `calls` bounds the application calls.

Actions:

| Action | C function |
|---|---|
| `NextFreeInvokeId` | `tsm_next_free_invokeID` |
| `SetConfirmedUnsegmentedTransaction` | `tsm_set_confirmed_unsegmented_transaction` |
| `TimerMilliseconds(d, step)` | `tsm_timer_milliseconds`, called by the main loop when the wall clock has moved by `step` seconds (`step < 0`: the clock was set back) |
| `FreeInvokeId` | `tsm_free_invoke_id` |

Other translations:
- The recursive `FirstUnusedId` is the search loop of `tsm_next_free_invokeID`.
  The counter wraps modulo `InvokeIdLimit` and skips 0, as the `uint8_t`
  counter does at 256.
- `AfterTick` is the per-slot body of the timer. It either retransmits or
  reports a timeout and frees the slot.
- `ElapsedMilliseconds(step)` is what the timer is told: `(step * 1000) %
  65536`. The `uint32_t` subtraction turns a clock set back by one second
  into 2^32 - 1 s; times 1000 and cut to 16 bits, that is 64536 ms. A stall
  of 66 s or more is cut to its remainder modulo 65536 ms.
  `WallMilliseconds(step)` is the time that really passed; only `elapsed`
  records it.
- `get_tsm_device` is not in `src/`. The first `Current_Invoke_ID` is
  therefore any value.

Refinement: `AbstractStatus` maps each id to its abstract status, and
`Refinement` checks `TsmAbstract!Spec`.

### LoadControl

State:
- `lc[i]` is `Load_Control_Descr[i]`.
- `ao[i]` is `Level[]` of Analog Output *i*.
- `currentTime` and `clock`.
- `shedCommand[i]` is a history variable: the priority-4 level of AO *i* was
  last set by Load Control *i*.
- `writes` bounds the client writes and the Lua commands.

Actions:

| Action | What it models |
|---|---|
| `LoadControlStateMachineHandler` | The whole handler: `Update_Current_Time`, then `Load_Control_State_Machine(i)` for every object in index order. `RunStateMachines` folds over the table. One Lua command may land inside the run, between the two locked reads of `Able_To_Meet_Shed_Request` for one object (`LuaMid`). |
| `ClockAdvance` | The wall clock moves one minute. |
| `Write*` | One action per writable property of `Load_Control_Write_Property`. |
| `WriteAoPresentValue` / `RelinquishAoPresentValue` | `Analog_Output_Write_Property` of Present_Value. |
| `LuaSetAoPresentValue` | The Lua binding `setAnalogOutputPresentValue` between two handler runs (`LuaSet`: `Analog_Output_Present_Value_Set`, result ignored). |

The BACnet requests are served by the main loop, so they never land inside a
handler run. The Lua `Run()` thread runs concurrently with it.
`Able_To_Meet_Shed_Request` reads the priority under one lock and the value
under another (`lc.c:316`). So `AbleToMeetShedRequest(d, p, a)` takes the
priority from the array `p` read first and the value from the array `a`
the output has after a Lua command. Elsewhere in a run, a Lua command has
the same effect as one landing before or after it.

The state machine is written as a function of the record `[lc, ao, cmd]`. This
is needed because one branch (lc.c:506) writes another object's `Start_Time`.

How the data is abstracted:
- **Time.** It is counted in minutes. The wildcard date-time `Wild` compares
  later than any real time, as `datetime_compare` does on 0xFF fields.
- **Shed levels.** They are scaled by `FullDutyBaseline = 15` (1.5 kW in
  tenths), so the float arithmetic of `Requested_Shed_Level_Value` is exact.
- **AO levels.** The AO store truncates to the `uint8_t` Level.

### Bvlc

The model tracks where each byte of the receive buffer came from:
- `rxBuf[p]` tags `Rx_Buf[p]` with the datagram it came from and its offset
  there. Id 0 marks the zero bytes the buffer starts with.
- A read past the buffer yields `Garbage`.
- `result` is the length returned.
- `cur` is the datagram received.
- `src` is the datagram whose sender was copied into `src`.
- `mtuLen` is the number of bytes a forwarding call encoded into its `mtu[]`.
- `wire` is the set of datagrams the sending node has sent, and `sent` what
  its last `bvlc_send_pdu` returned.

`BvlcReceive(m)` is the whole of `bvlc_receive`:
- `recvfrom` truncates the datagram to the buffer.
- Empty and non-BACnet datagrams are dropped.
- The function code and length are read from bytes 1-3 of the buffer, which
  may be stale.
- The uint16 `npdu_len -= 4`.
- The switch: the shift loop, the self test on the address, and the forwarding
  calls.

`BvlcReceiveTimeout` covers a `select` timeout or socket error.

`BvlcSendPdu(d, n)` is `bvlc_send_pdu` of the sending node. A destination
that is neither the broadcast network nor a 6-byte MAC returns -1. Otherwise
`SentDg(d, n)` is the datagram built in `mtu[]`: 0x81, Original-Broadcast or
Original-Unicast, the length `(uint16_t)(n + 4)`, and the n PDU bytes. It is
added to `wire`. `BvlcReceive` may take a datagram from `wire` any number of
times, or never, as UDP allows. The socket test `BIP_Socket < 0` is left out:
`dlenv_init` opens the socket before the main loop, and the process does not
run without it.

`bvlc.c` does not compile as shipped. The model takes `buf` as the receive
buffer and `npdu_len` as a `uint16_t` local. In `bvlc_fdt_forward_npdu` it
takes `npdu_length` as that function's length parameter.

`BBMD_Table` and `FD_Table` are static and start zeroed. Only the maintenance
timer writes them, and it only clears entries. Registration and BDT writes are
no-ops. So every forwarding loop runs over an empty table. The model keeps only
what the forwarders do regardless of the table: encode a Forwarded-NPDU of
10 + n bytes into `mtu[MAX_MPDU]`.

### ObjectTable

Four tables, indexed by `tb`, with two ways of growing:
- `"ao"`: `Analog_Output_Add` = `Resize` = `Free`, then `calloc`, then the
  once-only `Objects_Init`.
- `"bo"`, `"acc"`, `"piv"`: `X_Add` reads the size unlocked, then grows the
  block with `realloc` under the mutex. `bo` then runs its own once-only
  `Objects_Init` and a `Name_Set` loop over the new objects. `acc` and `piv`
  run a loop that sets `Name = NULL` under the mutex and calls
  `Set_Properties`: its own index check, `Name_Set`, `Present_Value_Set`,
  then `Accumulator_Scale_Integer_Set` (acc) or a locked store of Units and
  Out_Of_Service at the index checked on entry, with no check since (piv).

State, with its C counterpart:
- `blk[tb]`: `X_Descr`, as the id of the heap block it points to (0 is NULL).
- `size[tb]`: `X_Descr_Size`.
- `tab[tb][i]`: the record `X_Descr[i]` of that block. The record holds
  `Level[]`, `Present_Value` and the state of `Name`: NULL, a heap string, or
  the indeterminate bytes `realloc` appends.
- `initialized[tb]`: the once-only flag of `Objects_Init` (ao, bo).
- `pc[t]`, `k[t]`: where thread `t` is, and which of its calls it is making.
- `tgt[t]`, `j[t]`: the `new_size` and the loop index of its running Add.
- `cav[t]`: the block `CurrentAV` points into in
  `PositiveInteger_Value_Write_Property`.
- `freed`, `doubleFree`, `fault`: the blocks passed to `free()`, including
  those `realloc` frees when it moves a table. `fault` records the memory
  error that ended the process: `"null"`, `"bounds"`, `"uaf"` (use after
  free), `"wildfree"` (freeing an indeterminate pointer) or `"wildread"`
  (`snprintf` of an indeterminate `Name`).

Each region between `pthread_mutex_lock` and `_unlock` of a table's mutex is
one step. Every read the code makes without the mutex is a step of its own:
the size read of an Add, the index checks, the NULL tests, and the once-only
flags. Two adjacent unlocked reads with nothing between them are one step:
`prev_size` and `new_size` of an Add, and the device dispatch's
`Binary_Output_Valid_Instance` with `Binary_Output_Instance_To_Index` in a
Binary Output WriteProperty.

Undefined behaviour is a choice between its outcomes. `realloc` may grow the
block in place or move it and free the old one. Freeing an indeterminate
`Name` either finds zero bytes (a no-op) or corrupts the heap.

| Action | C code |
|---|---|
| `StartCall` | entry of a call: `X_Add` reads `X_Descr_Size` for `prev_size` and `new_size` |
| `FreeCheck`, `Free` | `Analog_Output_Free`: the unlocked NULL test, then the locked free |
| `Alloc` | `Analog_Output_Alloc`: `calloc` (zero-filled), size set only on success |
| `Realloc` | `X_Add` (bo, acc, piv), locked: `realloc` fails (unlock, return), grows in place, or moves |
| `InitCheck`, `ObjectsInit` | `Analog_Output_Objects_Init` / `Binary_Output_Objects_Init`: the once-only flag, then the locked loop to NULL levels and names. The unlocked test and set of the flag are one step. In the code both threads could pass the test and run the loop twice; that only NULLs the same records again, which could at most leak a name set in between, and no property is about leaks. |
| `NameNull` | `Accumulator_Add` / `PositiveInteger_Value_Add`: locked `X_Descr[i].Name = NULL`, with no index check |
| `SpCheck` | `X_Set_Properties` (acc, piv): the unlocked index check on entry |
| `NameCheck`, `NameStore` | `X_Name_Set`: the unlocked NULL and index checks, then the locked `free(Name)` and `calloc`; in `Set_Properties` a failed check goes on to `Present_Value_Set` |
| `PvCheck`, `PvStore` | `Present_Value_Set(i, i)` from `Set_Properties` (acc, piv) |
| `PropsCheck`, `PropsStore` | the rest of `Set_Properties`: `Accumulator_Scale_Integer_Set` (check, locked store), or PIV's locked Units / Out_Of_Service store with the entry index |
| `IndexCheck`, `Access` | `Present_Value_Set`, `_Relinquish`, `Present_Value`, `Analog_Output_Write_Property` (Present_Value REAL or NULL, Out_Of_Service through `Out_Of_Service_Set`), `Binary_Output_Write_Property` of Present_Value and Out_Of_Service: the unlocked checks, then the locked access |
| `WpCheck`, `WpPtr`, `WpStore` | `PositiveInteger_Value_Write_Property` of Out_Of_Service: the index check, `CurrentAV = &PIV_Descr[i]` under the mutex, then the store through `CurrentAV` after unlocking |
| `RpCheck`, `RpRead`, `RpName`, `RpPtr`, `RpCav` | a ReadProperty request: `X_Valid_Instance` in the device dispatch, then the accesses `X_Read_Property` makes for the property asked (`RpAo`, `RpBo`, `RpAcc`, `RpPiv`): unlocked index checks, locked reads of a field or of `Name`, PIV's locked `CurrentAV = &PIV_Descr[i]` and its unlocked reads through `CurrentAV` |
| `Shutdown` | `cleanup()` entered between two calls of the main thread: SIGINT ended the loop, or the Lua `Update()` hook (or `init_update`) failed |
| `Cleanup` | `simulated_cleanup`'s `pthread_join` of the Lua thread, then `Device_Cleanup`: every `X_Cleanup` = `X_Free` (`FreeTables`), which frees each `Name` and the block |
| `Idle` | the main loop once every call is made, or the process after a fault or after `cleanup()` |

A ReadProperty is the sequence of table accesses its handler makes, one step
each; the encoding of the reply is left out. The handlers differ in what they
check. `Analog_Output_Read_Property` reads a whole Priority_Array with one
lock region per element. `Binary_Output_Read_Property` reads Out_Of_Service
and the Priority_Array without an index check.
`PositiveInteger_Value_Read_Property` reads Units and Out_Of_Service through
`CurrentAV` after the unlock, as its Write_Property does.

The calls are those `main.c` makes. The Lua `Run()` thread is started by
`simulated_init` before `populate_sim` adds objects in the main thread, in its
order: Accumulator, Analog Output, Binary Output, Positive Integer Value. So
the Adds of both threads, and the writes after them, interleave.

## Runs

| Run | Expect | What it shows |
|---|---|---|
| `tsm_core` (`MC_Tsm.cfg`) | pass | `UniqueInvokeIds`: no two live slots share an id, even after the counter wraps past live ids. `TransactionsTerminate`: every armed request is eventually answered, freed or timed out. `Refinement`: `Tsm` implements `TsmAbstract`. |
| `tsm_timing` (`MC_TsmTiming.cfg`) | violation | `RetryTimingBound`: spec.md 8 promises that an unanswered request fails at timeout × (retries+1) ± one tick, here 9000 ms. TLC's shortest trace sets the wall clock back by one second three times: each tick tells the TSM 64536 ms have passed, and the request fails with no time passed (`main.c:902`). With steps of 2 s only, it fails after 12 s: the floor at `tsm.c:323` drops the overshoot of every expiry. With steps of 1 s and 66 s, it fails after 75 s: the 66 s stall reaches the TSM as 464 ms. |
| `tsm_stale_pdu` (`MC_TsmStalePdu.cfg`) | violation | `TransactionPduIsOwn`: a reused slot returns the previous transaction's PDU. |
| `lc_core` (`MC_LoadControl.cfg`) | pass | Two objects. `ShedOnlyInWindow`: an object other than 0 commands its output only between its Start_Time and its end. `ShedsEnd`: every active shed of such an object eventually leaves the active states. Neither holds for object 0: every other object's successful finish wipes object 0's Start_Time (lc.c:506), after which a NON_COMPLIANT object 0 can comply outside any window and a COMPLIANT one never finishes. `StaleComplianceRevoked` (both objects): a Lua command at priority 3 landing between the two reads of `Able_To_Meet_Shed_Request` does make a run enter COMPLIANT with the output overridden, but the next run always takes the object out of COMPLIANT, as it does after a client override. |
| `lc_start_time_reset` | violation | `StartTimeResetOnlyOwn`: object 1 finishing its shed wipes object 0's Start_Time (lc.c:506 uses the loop counter `i`, always 0). In the trace object 0 is pending, and its request is cancelled. An active object 0 would be left with a wildcard end, later than any time: it would never finish. |
| `lc_relinquish` | violation | `ShedReleasedWhenInactive`: a shed that ends from NON_COMPLIANT keeps commanding the AO at priority 4. |
| `lc_default_shed` | violation | `NoShedAtDefaultLevel`: any write that sets `Request_Written` while the requested level is the default cancels a pending shed. In the trace this is a Shed_Duration write after a Start_Time write. The cancel leaves `Start_Time_Property_Written` set, so the object goes pending again and sheds to 90% at the level that means "no shed". |
| `bvlc_core` (`MC_Bvlc.cfg`) | pass | `DeliveredNpduIsReceived`: for well-formed traffic, every non-empty result is the NPDU of the datagram just received, with `src` its sender. This holds although the buffer keeps earlier contents. The traffic includes this node's own unicasts, a unicast and a broadcast from another port of this host, non-BACnet datagrams, a length field below 4, and what another node's `bvlc_send_pdu` sends. `SentNpduDelivered`: a PDU sent with `bvlc_send_pdu`, broadcast or unicast, late or twice, reaches the receiver's `npdu_handler` with the length it was sent with. |
| `bvlc_malformed` (`MC_BvlcMalformed.cfg`) | violation | `DeliveredNpduIsReceived` fails on headers that do not describe the datagram. TLC's shortest trace is a BVLC-Result, whose length minus 4 is returned with the header still in the buffer. Checked one at a time, each of the other datagrams in the set breaks the property too. A 1-byte datagram on the zeroed buffer is read as a Result of length 0, and `npdu_len` wraps to 65532. A length field of 9 on a 6-byte unicast delivers 3 bytes it did not carry, left in `Rx_Buf` from before. |
| `bvlc_mtu` | violation | A 13-byte broadcast fits `Rx_Buf[14]`. It is then forwarded as 19 bytes into `mtu[14]`. |
| `objtable_core` (`MC_ObjectTable.cfg`) | pass | `NoDoubleFree`: eight Adds over four tables from two threads, with `calloc` and `realloc` allowed to fail and `realloc` allowed to move a table, never free one block twice. `Analog_Output_Free` reads `AO_Descr` again under the mutex, and `realloc` runs under the mutex. Three ReadProperty requests (a PIV Units read through `CurrentAV`, a BO Object_Name, a whole AO Priority_Array) and three Out_Of_Service writes run among them, and `cleanup()` may free every table once the script has returned. `TypeOK` also shows that the out-of-range write of 120 from the script never reaches an Analog Output Level byte. |
| `objtable_memory` (`MC_ObjectTableMemory.cfg`) | violation | `MemorySafe`: TLC's shortest trace is 19 steps of the Lua thread alone. Its second `createBinaryOutputs(1)` finds `Binary_Output_Objects_Init` already done, and `Name_Set(1)` frees the indeterminate `Name` that `realloc` appended. The same run, with every allocation succeeding, reaches four more memory errors; each was found by asking TLC for that fault kind alone (see below). |

The other memory errors `objtable_memory` reaches:

- **ACC race, 23 steps.** `populate_sim`'s `Accumulator_Add` has done its
  `realloc`. Before its loop sets `Name = NULL`, the script's
  `setAccumulatorName(0)` frees the indeterminate `Name` (`acc.c:204`).
- **BO bounds, 32 steps.** `populate_sim`'s `Binary_Output_Add` reads size 0.
  The script then completes two Binary Output Adds, and its second `Name_Set(1)`
  passes its index check. The main thread's `realloc` then shrinks the table
  back to one record, and the locked store goes past the block (`bo.c:109`).
- **AO NULL, 36 steps.** A write passes its index check. The other thread's
  `Analog_Output_Add` then frees the table, and the write stores through NULL
  (`ao.c:260`).
- **ReadProperty.** The pass run's scenario, asked for each fault kind in
  turn, also reaches memory errors of the ReadProperty handlers: a whole AO
  Priority_Array read through NULL while the script's Add has freed the
  table (19 steps), a BO Object_Name `snprintf` of an indeterminate `Name`
  (32 steps), and a PIV Units read through a `CurrentAV` that a `realloc` has
  freed (36 steps, `piv.c:368`).
- **PIV use after free, 49 steps.** A WriteProperty of Out_Of_Service takes
  `CurrentAV`. The script's `PositiveInteger_Value_Add` then moves the table
  with `realloc`, and the store goes into the freed block (`piv.c:476`).

Each violation is recorded as a finding in `PROJECT.json`. Every property of a
passing run is shown to be sensitive to the code by a mutant, listed there: a
plausible bug in the translated code that TLC then catches.

## Bounds and why they are enough

### TSM

- Two slots, with ids 1..3. A 2-bit counter space, with 0 skipped, wraps after
  three allocations, so the counter lands on live ids. This is the case the
  search loop exists for.
- Timeout 3000 ms and 2 retries. In `tsm_core` the clock moves by 1 or 2 s
  or is set back by 1 s (`MC_ClockSteps`). Ticks that do not divide the
  timeout expose the overshoot, and the set-back one is the 64536 ms tick. A
  66 s stall is left out of `tsm_core`: it makes `elapsed` range too widely
  for the five-minute budget, and the timing run has it.
- The timing run uses steps of 2 s, 66 s and -1 s (`MC_TimingSteps`): one
  step for each way the failure time can be wrong.
- Seven application calls: enough to allocate, arm, retry and free through a
  full wrap.

### Load Control

- `lc_core` runs two objects, so the handler interleaves two state machines
  and the Lua command can land in either. The clock reaches minute 2, and the
  one-minute window starts at minute 0: before, inside and after the window.
- Its requests are a LEVEL request, through `Shed_Levels[]`, and an AMOUNT
  above the baseline, whose negative value `Analog_Output_Present_Value_Set`
  refuses. The cancels by a default level or a wildcard start are the subject
  of the violation runs, which keep one object, the clock to minute 3, a
  window from minute 1, and requests of every type.
- A client command at priority 8 lets a shed comply. The Lua script
  overrides at priority 3 in `lc_core` and at priority 2 in the other runs.
  Landing inside a handler run, over the priority-8 command, the Lua command
  turns a read of priority 8 and value 100 into a compliance under an
  override.
- Four client writes and Lua commands in `lc_core`: a start, a duration, a
  request and an output command are what one shed needs. The violation runs
  have five (four for the two-object start-time run).
- These bounds do not let object 1 finish a shed while object 0 is active, so
  `lc_core` never reaches the wipe at lc.c:506; `lc_start_time_reset` does.
  That is why `ShedOnlyInWindow` and `ShedsEnd` are stated for
  `OwnStartTime` (the objects other than 0) only: for object 0 they are false
  in the code, as that run's trace shows.

### BVLC

- The buffer holds 14 bytes: a 4-byte BVLC header plus the 10-byte
  Forwarded-NPDU header. So "fits the buffer" and "fits a forwarded copy" are
  different, as they are for `MAX_MPDU`.
- The sender passes PDUs of 2 and 10 bytes. 10 is the most a caller can pass:
  the callers send from `Handler_Transmit_Buffer[MAX_PDU]`, and
  `MAX_MPDU = MAX_HEADER + MAX_PDU` with the 4-byte B/IP header (a
  configuration header not in the repository). A 10-byte broadcast is the
  one the receiver forwards past its `mtu[]` (`bvlc_mtu`).
- The datagrams in each configuration are the cases the code tells apart. The
  state space is finite without a bound on calls, because every buffer is made
  of the datagrams' own bytes.

### Object table

- **Two threads, and each table gets Adds from both.** Analog Output gets
  three Adds, so two can overlap while a block exists; that is the case a
  double free needs. Binary Output and Positive Integer Value get one Add from
  each thread, so a `realloc` can move a block that another thread's pointer
  or index check still refers to. Accumulator gets one Add from `populate_sim`
  and a `setAccumulatorName` from the script, which can fall between its
  `realloc` and its `Name = NULL`.
- **The memory run adds a second script Add of Binary Outputs and a write of
  the object it creates.** This is the smallest case in which an Add's stale
  size read shrinks the table.
- **Out_Of_Service writes to a PIV, an AO and a BO in the main thread,**
  one for each way a Write_Property reaches the table: through `CurrentAV`,
  through `Out_Of_Service_Set`, and by a locked store at the index.
- **`cleanup()` may start between any two calls of the main thread,** as
  SIGINT or a failed `Update()` can end the loop at any iteration. (It may
  also start between two of `populate_sim`'s Adds, which the code cannot:
  the model allows more, which is sound for the safety properties.)
- **Three ReadProperty requests in the main thread,** one of each access
  pattern: a read through `CurrentAV`, a `Name` read, and the per-element
  locking of a Priority_Array. The other properties repeat these accesses.
- **One object per Add.** A second object would only repeat the loop body.
- **Two priorities.** The priority does not affect how a table is shared.
- **Allocation failure.** In the pass run `calloc` and `realloc` may fail on
  every call. In the memory run they always succeed, so its errors do not
  depend on running out of memory.

## Fairness

- The main loop calls `tsm_timer_milliseconds` and the Load Control handler on
  every iteration in which a second has elapsed. (`main.c:911` passes only the
  milliseconds, while `tsm.c:313` also takes a `BACNET_ADDRESS *`. `tsm.h`,
  which would decide which of the two is built, is not in the repository. The
  model follows the per-device table of `tsm.c`.) So the timer tick, the handler
  and the clock are weakly fair.
- Clients and the application are not obliged to do anything. Their actions
  have no fairness and are bounded.
- `Bvlc` and `ObjectTable` are checked for safety only, so they assume no
  fairness.

## Not modelled, and why

- **Issues without a run.** Each would need a violated run of its own, and
  the runs are spent on the findings above.
  - Load Control's Present_Value is never updated (lc.c:205). One read shows
    it, so it does not need a model checker.
  - A unicast from another BACnet/IP device on this host is dropped
    (bvlc.c:667), as the code's comment "ignore messages from me" intends.
    spec.md 4.1 says to deliver unless the sender is self. Whether "self"
    means this node or this host is left to the maintainers, so no property
    asserts either reading. `bvlc_core` has such a sender, and
    `DeliveredNpduIsReceived` shows the dropped datagram is never delivered
    in part.
  - Two concurrent Adds both grow from the same size, so objects are lost and
    (ao) a block leaks (`ao.c:107`). `ObjectTable` reaches it; it is not a
    memory error, so `MemorySafe` does not flag it.
  - A second Analog Output Add leaves every Level of the new table at 0,
    which commands every priority to 0, because `Objects_Init` only runs once
    (`ao.c:144`). `ObjectTable` reaches it.
  - When `Update()` fails, `cleanup()` joins the Lua thread with `running`
    still true; a `Run()` that loops on `isBacnetRunning()` never returns,
    and the process hangs until SIGINT (`main.c:502`). The repository has
    no Lua script, so the model's `Run()` is a list of calls that returns.
  - `tsm_invoke_id_failed` reports an id that is allocated but not yet armed
    as failed (`tsm.c:420`); its comment does not say which answer is meant.
- **BVLC encoders** (`bvlc.c`). `bvlc_send_pdu` is modelled; the
  `bvlc_encode_*` functions other than the Forwarded-NPDU one are called by no
  code of the program. Reading them found that
  `bvlc_encode_register_foreign_device` writes the TTL over the length field,
  and `bvlc_encode_delete_fdt_entry` writes the address over the header. The
  forwarding tables and the maintenance timer stay out: they are empty in
  every run of this program. No code registers a foreign device, so
  `bvlc_maintenance_timer` only ever visits invalid entries and spec.md §8's
  FDT expiry has no reachable state to be checked on.
- **Object tables, the parts left out.** Units, Scale and Out_Of_Service are
  accesses without values: no modelled read depends on them. Read_Property
  is modelled by the accesses it makes; the reply it encodes is not.
  `PositiveInteger_Value_Write_Property` of Present_Value makes the same
  check and store as the Lua setter, and `Accumulator_Write_Property` only
  denies. `Binary_Output_Set_Properties`, `Accumulator_Objects_Init` and
  `PositiveInteger_Value_Intrinsic_Reporting` are never called.
- **Load Control and the Lua thread's table operations.** `LoadControl` has
  the Lua thread's commands of the output, including between the two reads
  of `Able_To_Meet_Shed_Request`. It does not have the Lua thread's
  `createAnalogOutputs`, which frees and reallocates the table under the
  handler: that is memory behaviour, and `ObjectTable` has it.
- **An output nobody commands cannot be shed.** `Analog_Output_Present_Value_Priority`
  returns 0 when every priority is relinquished, and `priority >= 4`
  (`lc.c:318`) takes that as an override. `LoadControl` has this (a shed
  goes NON_COMPLIANT until some client commands the output at a priority
  below 4); no run asserts that it should comply. This is a plain sequential
  behaviour that a unit test shows directly.
- **Restart codec** (`restart.c`, `h_restart.c`, `bacdevobjpropref.c`). These
  are pure encoders and decoders, reached only through the device object
  (`device.c`, not in the repository); nothing in `apps/server` calls them.
  Reading them found: the encoder checks each recipient against `max_apdu`
  rather than the space left (`restart.c:49`); the decoder checks 4 bytes
  before a 5-byte object identifier and reads each tag byte unchecked
  (`restart.c:147`), and leaves the closing tag [1] unconsumed;
  `handler_restart_send` never sends, as its `status` is never set.
- **Left out for good.** Read_Property encoding, object names, printing and the
  unit tests embedded in the C files. They are formatting or test code.
