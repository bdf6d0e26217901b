------------------------------ MODULE Ps2Poll -------------------------------
(***************************************************************************)
(* The polling loop of ps2_buffer_wait and response_wait (src/driver/ps2.c)*)
(*                                                                         *)
(*     uint32_t wait = DEFAULT_WAIT;                                       *)
(*     while (!ready() && wait--);                                         *)
(*     return wait;                                                        *)
(*                                                                         *)
(* against a controller that sets the polled bit at any moment.  Both      *)
(* functions are this loop; they differ in the bit they poll.              *)
(***************************************************************************)
EXTENDS Integers

CONSTANTS DEFAULT_WAIT,  \* initial value of wait (1024)
          U32            \* number of values of a uint32_t (2^32)

ASSUME PollAssumption ==
    /\ DEFAULT_WAIT \in Nat \ {0}
    /\ U32 \in Nat
    /\ DEFAULT_WAIT < U32

VARIABLES ready,   \* the polled condition, as the controller has it now
          state,   \* "waiting" in the loop, "returned" after it
          result,  \* the value returned
          wait,    \* the local counter
          polls,   \* number of times the status register was read (history)
          seen     \* what the last of those reads showed (history)

vars == <<ready, state, result, wait, polls, seen>>

Init ==
    /\ ready \in BOOLEAN
    /\ state = "waiting"
    /\ result = FALSE
    /\ wait = DEFAULT_WAIT
    /\ polls = 0
    /\ seen = FALSE

\* The controller empties its input buffer, or fills its output buffer.  It
\* stays so until the driver's next access, which comes after the wait.
BecomeReady ==
    /\ ~ready
    /\ ready' = TRUE
    /\ UNCHANGED <<state, result, wait, polls, seen>>

\* A counter that goes below zero.
DecrementUnbounded(w) == w - 1

\* The value of "wait--" is the counter before the decrement.
Decrement(w) == (w - 1) % U32

\* --wait would be tested after the decrement.
PollPreDecrement ==
    /\ state = "waiting"
    /\ polls' = polls + 1
    /\ seen' = ready
    /\ wait' = IF ready THEN wait ELSE Decrement(wait)
    /\ IF ready \/ wait' = 0 THEN state' = "returned" /\ result' = (wait' # 0)
                             ELSE UNCHANGED <<state, result>>
    /\ UNCHANGED ready

\* A loop that never gives up.
PollForever ==
    /\ state = "waiting"
    /\ polls' = IF polls <= DEFAULT_WAIT THEN polls + 1 ELSE polls
    /\ seen' = ready
    /\ wait' = wait
    /\ IF ready THEN state' = "returned" /\ result' = (wait' # 0)
                ELSE UNCHANGED <<state, result>>
    /\ UNCHANGED ready

\* One evaluation of the loop condition; the return when it is false.
Poll ==
    /\ state = "waiting"
    /\ polls' = polls + 1
    /\ seen' = ready
    /\ wait' = IF ready THEN wait ELSE Decrement(wait)
    /\ IF ready \/ wait = 0 THEN state' = "returned" /\ result' = (wait' # 0)
                            ELSE UNCHANGED <<state, result>>
    /\ UNCHANGED ready

\* The caller goes on with the result.
Returned == state = "returned" /\ UNCHANGED vars

Next == BecomeReady \/ Poll \/ Returned

\* The loop runs on the only CPU with nothing to block it.
Spec == Init /\ [][Next]_vars /\ WF_vars(Poll)

-----------------------------------------------------------------------------
(* Properties *)

TypeOK ==
    /\ ready \in BOOLEAN
    /\ state \in {"waiting", "returned"}
    /\ result \in BOOLEAN
    /\ wait \in 0 .. U32 - 1
    /\ polls \in 0 .. DEFAULT_WAIT + 1
    /\ seen \in BOOLEAN

\* Exactly what the returned value means.  FALSE is returned only when the
\* controller was found ready, on the last of the DEFAULT_WAIT + 1 polls; when
\* all of them find it busy the counter wraps and TRUE is returned.
ResultMeaning ==
    state = "returned" =>
        /\ ~result <=> (seen /\ polls = DEFAULT_WAIT + 1)
        /\ ~seen => polls = DEFAULT_WAIT + 1

\* The loop behaves as Ps2Wait, the contract the driver model is built on.
Contract == INSTANCE Ps2Wait
ImplementsWait == Contract!Spec
=============================================================================
