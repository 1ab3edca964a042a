-------------------------------- MODULE Tsm --------------------------------
(***************************************************************************)
(* The BACnet Transaction State Machine of src/bacnet/basic/tsm/tsm.c.    *)
(*                                                                         *)
(* Every peer device has a fixed table of MAX_TSM_TRANSACTIONS slots.  A   *)
(* slot is free when its InvokeID is 0; otherwise it is IDLE (allocated,   *)
(* or failed after its retries) or AWAIT_CONFIRMATION.  The application    *)
(* allocates an invoke-ID, arms the slot with the request it sent, and     *)
(* frees the invoke-ID when the answer arrives; the main loop ticks the    *)
(* timers, which retransmit and finally time the request out.              *)
(*                                                                         *)
(* Timers count milliseconds.  The main loop (apps/server/main.c) ticks   *)
(* when time(NULL) differs from the last tick: elapsed_seconds is the      *)
(* uint32_t difference of two wall-clock readings, multiplied by 1000 in   *)
(* uint32_t and passed to the uint16_t parameter of tsm_timer_milliseconds. *)
(* The PDU bytes are abstracted to the invoke-ID encoded in them: a         *)
(* confirmed request carries its invoke-ID in its header.                  *)
(***************************************************************************)
EXTENDS Naturals, FiniteSets, FiniteSetsExt

CONSTANTS
    Devices,        \* peers that get_tsm_device resolves to a table
    MaxTsm,         \* MAX_TSM_TRANSACTIONS
    InvokeIdLimit,  \* 2^8: Current_Invoke_ID is a uint8_t
    ApduTimeout,    \* apdu_timeout(), in milliseconds
    ApduRetries,    \* apdu_retries()
    ClockSteps,     \* current_seconds - last_seconds at a tick (< 0: clock set back)
    MaxCalls        \* bound on the application's calls into the TSM

ASSUME /\ MaxTsm \in Nat \ {0}
       /\ InvokeIdLimit \in Nat /\ MaxTsm < InvokeIdLimit
       /\ ApduTimeout \in Nat \ {0} /\ ApduRetries \in Nat
       /\ ClockSteps \subseteq Int \ {0} /\ ClockSteps # {}
       /\ MaxCalls \in Nat

Slots == 1..MaxTsm

\* elapsed_milliseconds = elapsed_seconds * 1000 as the timer receives it:
\* (uint32_t)step, the product mod 2^32, then the uint16_t parameter.
\* 2^16 divides 2^32, so this is the product mod 2^16.
ElapsedMilliseconds(step) == (step * 1000) % 65536

\* The time that really passed: a clock set back is a step of no time.
WallMilliseconds(step) == IF step > 0 THEN step * 1000 ELSE 0

\* The history counter stops here: longer than any armed request can wait.
ElapsedCap ==
    (ApduRetries + 1) * (ApduTimeout + 2 * Max({WallMilliseconds(s) : s \in ClockSteps}))
InvokeIds == 1..(InvokeIdLimit - 1)   \* 0 is "free / no transaction"
NoPdu == 0                            \* apdu_len = 0: nothing stored yet
States == {"IDLE", "AWAIT_CONFIRMATION"}

VARIABLES
    tsm,              \* tsm[d][i]: slot i of the TSM_List of peer d
    currentInvokeId,  \* Current_Invoke_ID of each peer
    elapsed,          \* wall-clock ms since the slot was last armed (history)
    armed,            \* slot armed since its id was allocated (history)
    calls             \* application calls made so far

vars == <<tsm, currentInvokeId, elapsed, armed, calls>>

Slot == [InvokeID : 0..(InvokeIdLimit - 1), state : States,
         RetryCount : 0..ApduRetries, RequestTimer : 0..ApduTimeout,
         apdu : {NoPdu} \cup InvokeIds]

TypeOK ==
    /\ tsm \in [Devices -> [Slots -> Slot]]
    /\ currentInvokeId \in [Devices -> 0..(InvokeIdLimit - 1)]
    /\ elapsed \in [Devices -> [Slots -> 0..ElapsedCap]]
    /\ armed \in [Devices -> [Slots -> BOOLEAN]]
    /\ calls \in 0..MaxCalls

(* The tables start zeroed; get_tsm_device is outside the source, so the   *)
(* first Current_Invoke_ID may be any uint8 value.                         *)
Init ==
    /\ tsm = [d \in Devices |-> [i \in Slots |->
                [InvokeID |-> 0, state |-> "IDLE", RetryCount |-> 0,
                 RequestTimer |-> 0, apdu |-> NoPdu]]]
    /\ currentInvokeId \in [Devices -> 0..(InvokeIdLimit - 1)]
    /\ elapsed = [d \in Devices |-> [i \in Slots |-> 0]]
    /\ armed = [d \in Devices |-> [i \in Slots |-> FALSE]]
    /\ calls = 0

-----------------------------------------------------------------------------
(* Lookups.                                                                *)

\* tsm_find_invokeID_index: the first slot holding the id, or none.
FindInvokeIdIndex(d, id) ==
    LET hits == {i \in Slots : tsm[d][i].InvokeID = id}
    IN IF hits = {} THEN 0 ELSE CHOOSE i \in hits : \A j \in hits : i <= j

\* Seeded fault: a slot counts as free when it is IDLE, not when its id is 0.
FindFirstIdleIndex(d) ==
    LET idle == {i \in Slots : tsm[d][i].state = "IDLE"}
    IN IF idle = {} THEN 0 ELSE Min(idle)

\* tsm_find_first_free_index
FindFirstFreeIndex(d) == FindInvokeIdIndex(d, 0)

\* tsm_transaction_available
TransactionAvailable(d) == \E i \in Slots : tsm[d][i].InvokeID = 0

\* Current_Invoke_ID++ on a uint8_t, skipping 0.
NextId(c) == IF (c + 1) % InvokeIdLimit = 0 THEN 1 ELSE (c + 1) % InvokeIdLimit

\* The while (!found) loop: step from c until an id no slot holds.  A free
\* slot holds 0, so 0 always counts as used.
\* Seeded fault: the loop takes Current_Invoke_ID without the in-use check.
FirstUnusedIdUnchecked(d, c) == IF c = 0 THEN 1 ELSE c

RECURSIVE FirstUnusedId(_, _)
FirstUnusedId(d, c) ==
    IF FindInvokeIdIndex(d, c) = 0 THEN c ELSE FirstUnusedId(d, NextId(c))

\* tsm_invoke_id_free / tsm_invoke_id_failed / tsm_get_transaction_pdu
InvokeIdFree(d, id) == FindInvokeIdIndex(d, id) = 0
InvokeIdFailed(d, id) ==
    FindInvokeIdIndex(d, id) # 0 /\ tsm[d][FindInvokeIdIndex(d, id)].state = "IDLE"
TransactionPdu(d, id) ==
    IF id # 0 /\ FindInvokeIdIndex(d, id) # 0
    THEN tsm[d][FindInvokeIdIndex(d, id)].apdu ELSE NoPdu

-----------------------------------------------------------------------------
(* Operations.                                                             *)

\* tsm_next_free_invokeID: with no free slot it returns 0 and changes nothing.
NextFreeInvokeId(d) ==
    /\ calls < MaxCalls
    /\ TransactionAvailable(d)
    /\ LET id == FirstUnusedId(d, currentInvokeId[d])
           i  == FindFirstFreeIndex(d)
       IN /\ tsm' = [tsm EXCEPT ![d][i].InvokeID = id, ![d][i].state = "IDLE",
                                ![d][i].RequestTimer = ApduTimeout]
          /\ currentInvokeId' = [currentInvokeId EXCEPT ![d] = NextId(id)]
          /\ armed' = [armed EXCEPT ![d][i] = FALSE]
    /\ calls' = calls + 1
    /\ UNCHANGED elapsed

\* tsm_set_confirmed_unsegmented_transaction for an allocated id, with
\* apdu_len > 0: the slot stores the request and starts waiting.
SetConfirmedUnsegmentedTransaction(d, id) ==
    /\ calls < MaxCalls
    /\ id # 0
    /\ FindInvokeIdIndex(d, id) # 0
    /\ LET i == FindInvokeIdIndex(d, id)
       IN /\ tsm' = [tsm EXCEPT ![d][i].state = "AWAIT_CONFIRMATION",
                                ![d][i].RetryCount = 0,
                                ![d][i].RequestTimer = ApduTimeout,
                                ![d][i].apdu = id]
          /\ elapsed' = [elapsed EXCEPT ![d][i] = 0]
          /\ armed' = [armed EXCEPT ![d][i] = TRUE]
    /\ calls' = calls + 1
    /\ UNCHANGED currentInvokeId

\* One slot of the loop in tsm_timer_milliseconds.  A retry retransmits the
\* stored PDU (datalink_send_pdu); the last expiry reverts to IDLE with the
\* invoke-ID kept and calls Timeout_Function(InvokeID).
\* Seeded fault: one retry too many (<= for <).
AfterTickExtraRetry(s, ms) ==
    LET t == IF s.RequestTimer > ms THEN s.RequestTimer - ms ELSE 0
    IN  IF s.state # "AWAIT_CONFIRMATION" THEN s
        ELSE IF t # 0 THEN [s EXCEPT !.RequestTimer = t]
        ELSE IF s.RetryCount <= ApduRetries
             THEN [s EXCEPT !.RequestTimer = ApduTimeout, !.RetryCount = @ + 1]
        ELSE [s EXCEPT !.RequestTimer = 0, !.state = "IDLE"]

\* Seeded fault: a retry that does not count itself.
AfterTickNoRetryCount(s, ms) ==
    LET t == IF s.RequestTimer > ms THEN s.RequestTimer - ms ELSE 0
    IN  IF s.state # "AWAIT_CONFIRMATION" THEN s
        ELSE IF t # 0 THEN [s EXCEPT !.RequestTimer = t]
        ELSE IF s.RetryCount < ApduRetries
             THEN [s EXCEPT !.RequestTimer = ApduTimeout]
        ELSE [s EXCEPT !.RequestTimer = 0, !.state = "IDLE"]

AfterTick(s, ms) ==
    LET t == IF s.RequestTimer > ms THEN s.RequestTimer - ms ELSE 0
    IN  IF s.state # "AWAIT_CONFIRMATION" THEN s
        ELSE IF t # 0 THEN [s EXCEPT !.RequestTimer = t]
        ELSE IF s.RetryCount < ApduRetries
             THEN [s EXCEPT !.RequestTimer = ApduTimeout, !.RetryCount = @ + 1]
        ELSE [s EXCEPT !.RequestTimer = 0, !.state = "IDLE"]

\* The main loop's tick with a wall-clock step: tsm_timer_milliseconds
\* with the truncated elapsed_milliseconds.
TimerMilliseconds(d, step) ==
    /\ tsm' = [tsm EXCEPT ![d] = [i \in Slots |->
                 AfterTick(tsm[d][i], ElapsedMilliseconds(step))]]
    /\ elapsed' = [elapsed EXCEPT ![d] = [i \in Slots |->
                     IF tsm[d][i].state = "AWAIT_CONFIRMATION"
                     THEN Min({elapsed[d][i] + WallMilliseconds(step), ElapsedCap})
                     ELSE elapsed[d][i]]]
    /\ UNCHANGED <<currentInvokeId, armed, calls>>

\* tsm_free_invoke_id: the answer arrived (or the caller gives up).
FreeInvokeId(d, id) ==
    /\ calls < MaxCalls
    /\ FindInvokeIdIndex(d, id) # 0
    /\ LET i == FindInvokeIdIndex(d, id)
       IN tsm' = [tsm EXCEPT ![d][i].state = "IDLE", ![d][i].InvokeID = 0]
    /\ calls' = calls + 1
    /\ UNCHANGED <<currentInvokeId, elapsed, armed>>

Next ==
    \E d \in Devices :
        \/ NextFreeInvokeId(d)
        \/ \E id \in InvokeIds : SetConfirmedUnsegmentedTransaction(d, id)
        \/ \E step \in ClockSteps : TimerMilliseconds(d, step)
        \/ \E id \in InvokeIds : FreeInvokeId(d, id)

(* The main loop calls the timer every elapsed second; the application's  *)
(* calls are not assumed to happen.                                        *)
Fairness == \A d \in Devices : WF_vars(\E step \in ClockSteps : TimerMilliseconds(d, step))

Spec == Init /\ [][Next]_vars /\ Fairness

-----------------------------------------------------------------------------
(* Properties.                                                             *)

(* No two slots of a peer's table hold the same invoke-ID: the allocation *)
(* loop of tsm_next_free_invokeID, wrapping through the uint8 space past  *)
(* ids still pending, never hands out an id that is still in use.         *)
UniqueInvokeIds ==
    \A d \in Devices : \A i, j \in Slots :
        i # j /\ tsm[d][i].InvokeID = tsm[d][j].InvokeID => tsm[d][i].InvokeID = 0

(* Every transaction armed by tsm_set_confirmed_unsegmented_transaction   *)
(* eventually leaves AWAIT_CONFIRMATION: the retries of                   *)
(* tsm_timer_milliseconds run out, so no request waits forever.            *)
TransactionsTerminate ==
    \A d \in Devices : \A i \in Slots :
        tsm[d][i].state = "AWAIT_CONFIRMATION" ~> tsm[d][i].state = "IDLE"

(* The status of an id as the application sees it through the probes.    *)
AbstractStatus ==
    [d \in Devices |-> [id \in InvokeIds |->
        LET i == FindInvokeIdIndex(d, id)
        IN  IF i = 0 THEN "free"
            ELSE IF tsm[d][i].state = "AWAIT_CONFIRMATION" THEN "awaiting"
            ELSE IF armed[d][i] THEN "failed"
            ELSE "allocated"]]

Abstract == INSTANCE TsmAbstract WITH status <- AbstractStatus

(* The table implements the invoke-ID lifecycle of TsmAbstract: ids are   *)
(* allocated only when free and within the table's capacity, timeouts    *)
(* only fail awaiting requests, and freeing, arming and ticking never    *)
(* resurrect, lose or duplicate a transaction.                           *)
Refinement == Abstract!Spec


(* spec.md 4.2 and 8: an armed request that is never answered times out   *)
(* "at tick T*(R+1) (+/- one tick granularity)" of the time since it was  *)
(* armed.  tsm_timer_milliseconds floors each expired timer at 0 and      *)
(* restarts it at the full timeout, dropping the overshoot of a tick; the *)
(* main loop truncates a tick of 66 s or more to 16 bits, and turns a     *)
(* wall clock set back into a tick of 2^32 - 1 seconds.                   *)
RetryTimingBound ==
    [][\A d \in Devices, i \in Slots, step \in ClockSteps :
          TimerMilliseconds(d, step)
          /\ tsm[d][i].state = "AWAIT_CONFIRMATION" /\ tsm'[d][i].state = "IDLE"
          => LET due == ApduTimeout * (ApduRetries + 1)
                 tick == WallMilliseconds(step)
             IN due - tick <= elapsed'[d][i] /\ elapsed'[d][i] <= due + tick]_vars

(* spec.md 4.2: tsm_get_transaction_pdu "copies out the stored PDU for a  *)
(* given invoke-ID" so that the confirmation handler can match an answer  *)
(* with what was sent.  The lookup checks neither state nor apdu_len, and *)
(* tsm_next_free_invokeID does not clear the slot it hands out.           *)
TransactionPduIsOwn ==
    \A d \in Devices : \A id \in InvokeIds :
        TransactionPdu(d, id) \in {NoPdu, id}

=============================================================================
