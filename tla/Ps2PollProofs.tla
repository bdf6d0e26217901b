---------------------------- MODULE Ps2PollProofs ---------------------------
(***************************************************************************)
(* Proofs about the polling loop for every number of polls and every       *)
(* counter width that exceeds it.  The invariant ties the counter to the   *)
(* number of polls; it is what rules out a second trip around zero.        *)
(***************************************************************************)
EXTENDS Ps2Poll, TLAPS

\* In the loop the counter has gone down once per poll.
Counting ==
    state = "waiting" =>
        /\ ~seen /\ ~result
        /\ polls <= DEFAULT_WAIT
        /\ wait = DEFAULT_WAIT - polls

\* Out of it, it stands where the successful poll found it or has wrapped.
Stopped ==
    state = "returned" =>
        \/ seen /\ polls >= 1 /\ wait = DEFAULT_WAIT + 1 - polls /\ result = (wait # 0)
        \/ ~seen /\ polls = DEFAULT_WAIT + 1 /\ wait = U32 - 1 /\ result

IInv == TypeOK /\ Counting /\ Stopped

-----------------------------------------------------------------------------

\* The decrement wraps at zero and only there.
LEMMA DecrementValue ==
    ASSUME NEW w \in 0 .. U32 - 1
    PROVE  Decrement(w) = IF w = 0 THEN U32 - 1 ELSE w - 1
<1>1. U32 \in Nat /\ U32 >= 2
    BY PollAssumption
<1>2. CASE w = 0
    <2>1. (-1) % U32 = U32 - 1
        BY <1>1, SMT
    <2>2. QED
        BY <1>2, <2>1 DEF Decrement
<1>3. CASE w # 0
    <2>1. w - 1 \in 0 .. U32 - 1
        BY <1>1, <1>3
    <2>2. (w - 1) % U32 = w - 1
        BY <1>1, <2>1, SMT
    <2>3. QED
        BY <1>3, <2>2 DEF Decrement
<1>4. QED
    BY <1>2, <1>3

LEMMA InitIInv == Init => IInv
<1> SUFFICES ASSUME Init PROVE IInv
    OBVIOUS
<1>1. /\ DEFAULT_WAIT \in 0 .. U32 - 1 /\ 0 \in 0 .. DEFAULT_WAIT + 1
      /\ 0 <= DEFAULT_WAIT /\ DEFAULT_WAIT = DEFAULT_WAIT - 0
    BY PollAssumption
<1>2. TypeOK
    BY <1>1 DEF Init, TypeOK
<1>3. Counting /\ Stopped
    BY <1>1 DEF Init, Counting, Stopped
<1>4. QED
    BY <1>2, <1>3 DEF IInv

\* One poll: the four outcomes of the loop condition.
LEMMA PollKeepsIInv ==
    ASSUME IInv, Poll
    PROVE  IInv'
<1>1. /\ state = "waiting" /\ polls' = polls + 1 /\ seen' = ready /\ ready' = ready
      /\ wait' = IF ready THEN wait ELSE Decrement(wait)
    BY DEF Poll
<1>2. /\ ready \in BOOLEAN /\ result = FALSE
      /\ wait = DEFAULT_WAIT - polls /\ polls \in 0 .. DEFAULT_WAIT /\ wait \in 0 .. U32 - 1
    BY <1>1, PollAssumption DEF IInv, TypeOK, Counting
<1>3. Decrement(wait) = IF wait = 0 THEN U32 - 1 ELSE wait - 1
    BY <1>2, DecrementValue
<1>4. CASE ready = TRUE
    <2>1. state' = "returned" /\ result' = (wait' # 0) /\ wait' = wait /\ seen' = TRUE
        BY <1>4, <1>1 DEF Poll
    <2>2. /\ polls' \in 0 .. DEFAULT_WAIT + 1 /\ polls' >= 1
          /\ wait' \in 0 .. U32 - 1
        BY <1>1, <1>2, <2>1, PollAssumption
    <2>3. wait' = DEFAULT_WAIT + 1 - polls'
        BY <1>1, <1>2, <2>1, PollAssumption
    <2>4. TypeOK'
        BY <1>1, <1>2, <2>1, <2>2, PollAssumption DEF TypeOK
    <2>5. Counting' /\ Stopped'
        BY <2>1, <2>2, <2>3 DEF Counting, Stopped
    <2>6. QED
        BY <2>4, <2>5 DEF IInv
<1>5. CASE ready = FALSE /\ wait = 0
    <2>1. state' = "returned" /\ wait' = U32 - 1 /\ seen' = FALSE
        BY <1>5, <1>1, <1>3 DEF Poll
    <2>2. result' = (wait' # 0)
        BY <1>5, <1>1 DEF Poll
    <2>3. wait' # 0
        BY <2>1, PollAssumption
    <2>4. result' = TRUE
        BY <2>2, <2>3
    <2>5. polls' = DEFAULT_WAIT + 1 /\ wait' \in 0 .. U32 - 1
        BY <1>1, <1>2, <1>5, <2>1, PollAssumption
    <2>6. TypeOK'
        BY <1>1, <1>2, <2>1, <2>4, <2>5, PollAssumption DEF TypeOK
    <2>7. Counting' /\ Stopped'
        BY <2>1, <2>4, <2>5 DEF Counting, Stopped
    <2>8. QED
        BY <2>6, <2>7 DEF IInv
<1>6. CASE ready = FALSE /\ wait # 0
    <2>1. state' = "waiting" /\ result' = FALSE /\ wait' = wait - 1 /\ seen' = FALSE
        BY <1>6, <1>1, <1>2, <1>3 DEF Poll
    <2>2. /\ polls' \in 0 .. DEFAULT_WAIT + 1 /\ polls' <= DEFAULT_WAIT
          /\ wait' = DEFAULT_WAIT - polls' /\ wait' \in 0 .. U32 - 1
        BY <1>1, <1>2, <1>6, <2>1, PollAssumption
    <2>3. TypeOK'
        BY <1>1, <1>2, <2>1, <2>2, PollAssumption DEF TypeOK
    <2>4. Counting' /\ Stopped'
        BY <2>1, <2>2 DEF Counting, Stopped
    <2>5. QED
        BY <2>3, <2>4 DEF IInv
<1>7. QED
    BY <1>2, <1>4, <1>5, <1>6

LEMMA NextKeepsIInv == IInv /\ [Next]_vars => IInv'
<1> SUFFICES ASSUME IInv, [Next]_vars PROVE IInv'
    OBVIOUS
<1>1. CASE BecomeReady
    BY <1>1 DEF BecomeReady, IInv, TypeOK, Counting, Stopped
<1>2. CASE Poll
    BY <1>2, PollKeepsIInv
<1>3. CASE Returned \/ UNCHANGED vars
    BY <1>3 DEF Returned, vars, IInv, TypeOK, Counting, Stopped
<1>4. QED
    BY <1>1, <1>2, <1>3 DEF Next

LEMMA IInvResult == IInv => ResultMeaning
    BY PollAssumption DEF IInv, TypeOK, Counting, Stopped, ResultMeaning

LEMMA AlwaysIInv == Spec => []IInv
    BY InitIInv, NextKeepsIInv, PTL DEF Spec

-----------------------------------------------------------------------------

\* What ps2_buffer_wait and response_wait return, for every DEFAULT_WAIT and
\* every counter width: FALSE only for a controller found ready on the very
\* last poll, TRUE also when every poll found it busy.
THEOREM PollResult == Spec => [](TypeOK /\ ResultMeaning)
<1>1. IInv => TypeOK /\ ResultMeaning
    BY IInvResult DEF IInv
<1>2. QED
    BY <1>1, AlwaysIInv, PTL

\* The counter stays a machine integer: its last decrement is the only one that
\* can wrap.
THEOREM PollKeepsType == Spec => []TypeOK
    BY PollResult, PTL

\* A wait makes no step that Ps2Wait does not make: every poll but the last is
\* a stutter, the last returns a value Ps2Wait allows.
THEOREM PollRefinesWait == Spec => Contract!Init /\ [][Contract!Next]_(Contract!vars)
<1>1. Init => Contract!Init
    BY DEF Init, Contract!Init
<1>2. IInv /\ IInv' /\ [Next]_vars => [Contract!Next]_(Contract!vars)
    <2> SUFFICES ASSUME IInv, IInv', [Next]_vars PROVE [Contract!Next]_(Contract!vars)
        OBVIOUS
    <2>1. CASE BecomeReady
        BY <2>1 DEF BecomeReady, Contract!Next, Contract!BecomeReady
    <2>2. CASE Poll
        <3>1. CASE state' = "returned"
            <4>1. result' \in Contract!WaitResults(ready)
                BY <2>2, <3>1 DEF Poll, IInv, TypeOK, Counting, Stopped, Contract!WaitResults
            <4>2. QED
                BY <2>2, <3>1, <4>1 DEF Poll, Contract!Next, Contract!Return
        <3>2. CASE state' # "returned"
            BY <2>2, <3>2 DEF Poll, Contract!vars
        <3>3. QED
            BY <3>1, <3>2
    <2>3. CASE Returned \/ UNCHANGED vars
        BY <2>3 DEF Returned, vars, Contract!vars
    <2>4. QED
        BY <2>1, <2>2, <2>3 DEF Next
<1>3. QED
    BY <1>1, <1>2, AlwaysIInv, PTL DEF Spec
=============================================================================
