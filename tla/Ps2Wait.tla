------------------------------ MODULE Ps2Wait -------------------------------
(***************************************************************************)
(* What a caller of ps2_buffer_wait or response_wait can rely on: the call *)
(* returns, it returns FALSE only when the controller is ready, and it     *)
(* returns TRUE both when the controller is ready and when it is not.      *)
(* Ps2Poll, the polling loop itself, implements this; Ps2Init uses         *)
(* WaitResults for every access of the driver to the controller.           *)
(***************************************************************************)

VARIABLES ready,   \* the polled bit of the status register
          state,   \* "waiting" or "returned"
          result   \* the value returned

vars == <<ready, state, result>>

WaitResults(isReady) == IF isReady THEN BOOLEAN ELSE {TRUE}

Init == ready \in BOOLEAN /\ state = "waiting" /\ result = FALSE

BecomeReady ==
    /\ ~ready
    /\ ready' = TRUE
    /\ UNCHANGED <<state, result>>

Return ==
    /\ state = "waiting"
    /\ state' = "returned"
    /\ result' \in WaitResults(ready)
    /\ UNCHANGED ready

Next == BecomeReady \/ Return

Spec == Init /\ [][Next]_vars /\ WF_vars(Return)
=============================================================================
