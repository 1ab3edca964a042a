----------------------------- MODULE TsmAbstract -----------------------------
(***************************************************************************)
(* What the transaction state machine promises its callers (spec.md 4.2): *)
(* per peer, every invoke-ID is free, allocated, awaiting confirmation or *)
(* failed.  Only a free id can be allocated, and only while fewer than    *)
(* MaxTsm ids are live; an allocated, awaiting or failed id can be armed  *)
(* (again); a tick turns some awaiting ids into failed ones, reporting    *)
(* each through the timeout callback; any live id can be freed.           *)
(***************************************************************************)
EXTENDS Naturals, FiniteSets

CONSTANTS Devices, MaxTsm, InvokeIds

VARIABLE status   \* status[d][id]

Status == {"free", "allocated", "awaiting", "failed"}

Live(d) == {id \in InvokeIds : status[d][id] # "free"}

TypeOK == status \in [Devices -> [InvokeIds -> Status]]

Init == status = [d \in Devices |-> [id \in InvokeIds |-> "free"]]

Allocate(d, id) ==
    /\ status[d][id] = "free"
    /\ Cardinality(Live(d)) < MaxTsm
    /\ status' = [status EXCEPT ![d][id] = "allocated"]

Arm(d, id) ==
    /\ status[d][id] # "free"
    /\ status' = [status EXCEPT ![d][id] = "awaiting"]

\* One timer tick: the ids in S exhaust their retries at once.
Expire(d, S) ==
    /\ S # {}
    /\ \A id \in S : status[d][id] = "awaiting"
    /\ status' = [status EXCEPT ![d] = [id \in InvokeIds |->
                     IF id \in S THEN "failed" ELSE status[d][id]]]

Free(d, id) ==
    /\ status[d][id] # "free"
    /\ status' = [status EXCEPT ![d][id] = "free"]

Next ==
    \E d \in Devices :
        \/ \E id \in InvokeIds : Allocate(d, id) \/ Arm(d, id) \/ Free(d, id)
        \/ \E S \in SUBSET InvokeIds : Expire(d, S)

Spec == Init /\ [][Next]_status

=============================================================================
