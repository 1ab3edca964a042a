------------------------------- MODULE MC_Tsm -------------------------------
(* Model-checking instance of Tsm: one peer table of two slots, invoke-IDs *)
(* in a 2-bit space so that Current_Invoke_ID wraps past pending ids, and  *)
(* the shipped retry policy shape (timeout 3000 ms, retries), and the     *)
(* wall-clock steps the main loop can see: one or two seconds, and a     *)
(* clock set back by one second (a tick of 64536 ms).                    *)
EXTENDS Tsm

MC_MaxTsm == 2
MC_InvokeIdLimit == 4
MC_ApduTimeout == 3000
MC_ApduRetries == 2
MC_ClockSteps == {1, 2, -1}
MC_MaxCalls == 7

\* The steps of the timing question: two seconds (a tick overshoots an
\* expiry), a 66 s stall, and the clock set back by one second.
MC_TimingSteps == {2, 66, -1}
=============================================================================
