-------------------------------- MODULE Itoa --------------------------------
(***************************************************************************)
(* _itoa of src/kernel/util.c with ilog, abs and ipow of                   *)
(* src/kernel/dmath.c: one action per phase, one step per iteration of     *)
(* the loops of ilog and of the digits.                                    *)
(*                                                                         *)
(* A register of the code is a number below U: an int32_t is kept as the   *)
(* uint32_t with the same bits and Negative tells its sign, since every    *)
(* operator of the digit loop converts to unsigned.  The build does not    *)
(* optimise, so negating the smallest int32_t wraps.                       *)
(***************************************************************************)
EXTENDS Integers, Sequences

CONSTANTS U,        \* number of values of a uint32_t (2^32)
          Memory,   \* bytes from the start of the buffer that are looked at
          Bases,    \* the bases _itoa is called with
          Sizes,    \* the buffer sizes it is called with
          Unset     \* a byte the call has not written

ASSUME ItoaAssumption ==
    /\ U \in Nat /\ U > 1 /\ U % 2 = 0
    /\ Memory \in Nat
    /\ Bases \subseteq (2 .. U - 1) \cap (2 .. 36)   \* as many digits as characters for them
    /\ Sizes \subseteq 0 .. Memory

VARIABLES pc,
          x,          \* the argument, consumed digit by digit
          base, bufsize,
          rest,       \* the x of ilog
          ndigit, magnitude, offset, out_size,
          buf,        \* character codes
          arg         \* x as it was passed (history)

frame == <<base, bufsize, arg>>
vars  == <<pc, x, frame, rest, ndigit, magnitude, offset, out_size, buf>>

-----------------------------------------------------------------------------

Negative(u) == u >= U \div 2

\* The bits complemented, one not added.
Negated_complement(u) == U - 1 - u

Negated(u) == (U - u) % U

Abs(u) == IF Negative(u) THEN Negated(u) ELSE u

\* The character codes of util.c: digits, then letters.
Code(d) == IF d < 10 THEN 48 + d ELSE 97 - 10 + d

Minus == 45

Prefix(b) == CASE b = 2  -> <<48, 98>>
               [] b = 8  -> <<48, 97>>
               [] b = 16 -> <<48, 120>>
               [] OTHER  -> << >>

PrefixLength(b) == IF b \in {2, 8, 16} THEN 2 ELSE 0

\* Square and multiply, as in the loop of ipow; c is <<result, base, exponent>>.
Power[c \in Nat \X Nat \X Nat] ==
    LET result == IF c[3] % 2 = 1 THEN (c[1] * c[2]) % U ELSE c[1]
    IN  IF c[3] \div 2 = 0 THEN result
        ELSE Power[<<result, (c[2] * c[2]) % U, c[3] \div 2>>]

ipow(b, exponent) == Power[<<1, b, exponent>>]

-----------------------------------------------------------------------------

\* The call: abs(x) is what ilog divides.
CallWith(u, b, size) ==
    /\ pc' = "ilog"
    /\ x' = u /\ arg' = u
    /\ base' = b /\ bufsize' = size
    /\ rest' = Abs(u) /\ ndigit' = 1
    /\ magnitude' = 0 /\ offset' = 0 /\ out_size' = 0

Init ==
    /\ pc = "ilog"
    /\ x \in 0 .. U - 1 /\ arg = x
    /\ base \in Bases /\ bufsize \in Sizes
    /\ rest = Abs(x) /\ ndigit = 1
    /\ magnitude = 0 /\ offset = 0 /\ out_size = 0
    /\ buf = [k \in 0 .. Memory - 1 |-> Unset]

\* Stopping one division early.
LastDigit_early(r, b) == r <= b

LastDigit(r, b) == r < b

ilog ==
    /\ pc = "ilog"
    /\ \/ /\ ~LastDigit(rest, base)
          /\ rest' = rest \div base
          /\ ndigit' = ndigit + 1
          /\ UNCHANGED <<pc, out_size>>
       \/ /\ LastDigit(rest, base)
          /\ out_size' = ndigit + PrefixLength(base) + (IF Negative(x) THEN 1 ELSE 0)
          /\ pc' = "size"
          /\ UNCHANGED <<rest, ndigit>>
    /\ UNCHANGED <<x, frame, magnitude, offset, buf>>

\* No room kept for the terminator.
TooSmall_exact(size, needed) == size < needed

TooSmall(size, needed) == size <= needed

\* Also the minus sign and the prefix, once the buffer is known to suffice.
check_size ==
    /\ pc = "size"
    /\ \/ /\ TooSmall(bufsize, out_size)
          /\ pc' = "failed"
          /\ UNCHANGED <<x, magnitude, offset, buf>>
       \/ /\ ~TooSmall(bufsize, out_size)
          /\ pc' = "digits"
          /\ LET sign == IF Negative(x) THEN 1 ELSE 0
             IN  /\ offset' = sign + PrefixLength(base)
                 /\ buf' = [k \in DOMAIN buf |->
                               CASE k < sign -> Minus
                                 [] sign <= k /\ k < offset' -> Prefix(base)[k - sign + 1]
                                 [] OTHER -> buf[k]]
          /\ x' = Abs(x)
          /\ magnitude' = ipow(base, ndigit - 1)
    /\ UNCHANGED <<frame, rest, ndigit, out_size>>

next_digit ==
    /\ pc = "digits" /\ offset < out_size
    /\ buf' = [buf EXCEPT ![offset] = Code(x \div magnitude)]
    /\ x' = x % magnitude
    /\ magnitude' = magnitude \div base
    /\ offset' = offset + 1
    /\ UNCHANGED <<pc, frame, rest, ndigit, out_size>>

terminate ==
    /\ pc = "digits" /\ offset >= out_size
    /\ buf' = [buf EXCEPT ![out_size] = 0]
    /\ pc' = "written"
    /\ UNCHANGED <<x, frame, rest, ndigit, magnitude, offset, out_size>>

Running == ilog \/ check_size \/ next_digit \/ terminate

Returned == pc \in {"written", "failed"} /\ UNCHANGED vars

Next == Running \/ Returned

Spec == Init /\ [][Next]_vars

-----------------------------------------------------------------------------
(* Properties *)

\* What a numeral in one of the bases consists of, and its end.
CharactersOf(b) == {Code(d) : d \in 0 .. b - 1} \cup {Prefix(b)[k] : k \in 1 .. PrefixLength(b)}

Characters == {0, Minus} \cup UNION {CharactersOf(b) : b \in Bases}

\* Machine integers, and in the buffer only what a numeral consists of: every
\* quotient of the digit loop is a digit.
TypeOK ==
    /\ pc \in {"parse", "string", "number", "ilog", "size", "digits", "written", "failed", "done"}
    /\ x \in 0 .. U - 1 /\ rest \in 0 .. U - 1 /\ magnitude \in 0 .. U - 1
    /\ ndigit \in Nat /\ out_size \in Nat /\ offset \in 0 .. out_size
    /\ buf \in [0 .. Memory - 1 -> {Unset} \cup Characters]

\* The shortest positional notation of a number.
Digits(b) ==
    LET digits[k \in Nat] == IF k < b THEN <<Code(k)>> ELSE Append(digits[k \div b], Code(k % b))
    IN  digits

\* What _itoa promises, independently of how it divides: sign, prefix and digits.
Numeral(u, b) ==
    (IF Negative(u) THEN <<Minus>> ELSE << >>) \o Prefix(b) \o Digits(b)[IF Negative(u) THEN U - u ELSE u]

\* Counting the digits by division, starting from base^(ndigit - 1) computed by
\* square and multiply, and dividing as unsigned, yield the numeral of every
\* argument, also of the smallest negative one; it is terminated.  A call fails
\* only for want of room, and returns the length of the numeral.
ResultIsNumeral ==
    /\ pc = "written" =>
         /\ Numeral(arg, base) = [k \in 1 .. out_size |-> buf[k - 1]]
         /\ buf[out_size] = 0
    /\ pc = "failed" => bufsize <= out_size /\ out_size = Len(Numeral(arg, base))

\* No byte is ever written outside the caller's buffer, and a call that fails
\* has written none.
BufferInBounds ==
    /\ \A k \in DOMAIN buf : k >= bufsize => buf[k] = Unset
    /\ pc = "failed" => \A k \in DOMAIN buf : buf[k] = Unset
=============================================================================
