------------------------------- MODULE Cprint --------------------------------
(***************************************************************************)
(* _cprint of src/driver/vga.c together with the _itoa it calls: the       *)
(* format is read character by character, a number goes through one buffer *)
(* that every number of the message shares.  write_char only appends here; *)
(* VgaText says what it does with a character.                             *)
(***************************************************************************)
EXTENDS Itoa

CONSTANTS Messages,   \* formats, as sequences of character codes
          Numbers,    \* what va_arg may find for %d and %x, missing or not
          Strings,    \* what it may find for %s
          Letters,    \* and for %c
          BufSize     \* size of the buffer of _cprint (32)

Percent == 37

\* No kernel message ends in a lone % or has another specifier; reads are the
\* positions where a character is read that no specifier has taken.
Reads(m, reads) ==
    /\ 1 \in reads
    /\ \A k \in reads :
          k <= Len(m) =>
             \/ m[k] # Percent /\ k + 1 \in reads
             \/ /\ m[k] = Percent /\ k < Len(m)
                /\ m[k+1] \in {Percent, 99, 115, 100, 120}
                /\ k + 2 \in reads

WellFormed(m) == \E reads \in SUBSET (1 .. Len(m) + 1) : Reads(m, reads)

ASSUME PrintAssumption ==
    /\ Messages \subseteq Seq(Nat) /\ \A m \in Messages : WellFormed(m)
    /\ Numbers \subseteq (0 .. U - 1) /\ Letters \subseteq Nat /\ Strings \subseteq Seq(Nat)
    /\ {10, 16} \subseteq Bases /\ BufSize \in Sizes

\* The buffer of _cprint has room for every number it may be asked for and for
\* the terminator.
ASSUME BufferAssumption ==
    \A n \in Numbers : \A b \in {10, 16} : Len(Numeral(n, b)) < BufSize

VARIABLES caller,   \* _cprint, _cprintln which calls it, or other code calling _itoa
          msg,      \* what is left of the format
          str,      \* what is left of a string argument
          i,        \* index of the loop that writes the buffer
          out,      \* the characters passed to write_char (history)
          format, given   \* the message, and the arguments taken (history)

printing == <<caller, msg, str, i, out, format, given>>
printVars == <<vars, printing>>

-----------------------------------------------------------------------------

\* A null pointer is left alone, as the empty message is.
Formats == Messages \cup {<< >>}

\* _cprint with some message, or a call of _itoa from elsewhere.
PrintInit ==
    /\ str = << >> /\ i = 0 /\ out = << >> /\ given = << >>
    /\ \/ Init /\ caller = "other" /\ msg = << >> /\ format = << >>
       \/ /\ caller \in {"_cprint", "_cprintln"} /\ msg \in Formats /\ format = msg
          /\ pc = "parse"
          /\ x = 0 /\ arg = 0 /\ base = 10 /\ bufsize = BufSize
          /\ rest = 0 /\ ndigit = 0 /\ magnitude = 0 /\ offset = 0 /\ out_size = 0
          /\ buf = [k \in 0 .. Memory - 1 |-> Unset]

write_char(ch) == out' = Append(out, ch)

\* A character that is not a percent sign, or the second of two.
plain_character ==
    /\ pc = "parse" /\ msg # << >>
    /\ \/ /\ msg[1] # Percent /\ write_char(msg[1])
          /\ msg' = Tail(msg)
       \/ /\ msg[1] = Percent /\ msg[2] = Percent /\ write_char(Percent)
          /\ msg' = Tail(Tail(msg))
    /\ UNCHANGED <<vars, caller, str, i, format, given>>

Specifier(ch) ==
    /\ pc = "parse" /\ msg # << >> /\ msg[1] = Percent /\ msg[2] = ch
    /\ msg' = Tail(Tail(msg))

\* %c
character ==
    /\ Specifier(99)
    /\ \E l \in Letters : write_char(l) /\ given' = Append(given, l)
    /\ UNCHANGED <<vars, caller, str, i, format>>

\* %s: its own percent signs are not parsed.
string ==
    \/ /\ Specifier(115) /\ pc' = "string"
       /\ \E s \in Strings : str' = s /\ given' = Append(given, s)
       /\ UNCHANGED out
       /\ UNCHANGED <<x, frame, rest, ndigit, magnitude, offset, out_size, buf, caller, i, format>>
    \/ /\ pc = "string" /\ UNCHANGED <<x, frame, rest, ndigit, magnitude, offset, out_size, buf>>
       /\ UNCHANGED <<caller, msg, i, format, given>>
       /\ \/ str # << >> /\ write_char(str[1]) /\ str' = Tail(str) /\ UNCHANGED pc
          \/ str = << >> /\ pc' = "parse" /\ UNCHANGED <<str, out>>

\* The index declared outside the loop and never reset.
FirstIndex_kept == i

FirstIndex == 0

\* %d and %x
number ==
    /\ \E n \in Numbers :
           /\ \/ Specifier(100) /\ CallWith(n, 10, BufSize)
              \/ Specifier(120) /\ CallWith(n, 16, BufSize)
           /\ given' = Append(given, n)
    /\ i' = FirstIndex
    /\ UNCHANGED <<buf, caller, str, out, format>>

\* The result of itoa and itoh is ignored.
write_buffer ==
    /\ caller # "other"
    /\ \/ pc \in {"written", "failed"} /\ pc' = "number" /\ UNCHANGED <<i, out>>
       \/ pc = "number" /\ buf[i] \in 1 .. 255 /\ write_char(buf[i]) /\ i' = i + 1 /\ UNCHANGED pc
       \/ pc = "number" /\ buf[i] = 0 /\ pc' = "parse" /\ UNCHANGED <<i, out>>
    /\ UNCHANGED <<x, frame, rest, ndigit, magnitude, offset, out_size, buf>>
    /\ UNCHANGED <<caller, msg, str, format, given>>

\* The end of the format; println and cprintln end the line.
end_message ==
    /\ pc = "parse" /\ msg = << >> /\ pc' = "done"
    /\ IF caller = "_cprintln" THEN write_char(10) ELSE UNCHANGED out
    /\ UNCHANGED <<x, frame, rest, ndigit, magnitude, offset, out_size, buf>>
    /\ UNCHANGED <<caller, msg, str, i, format, given>>

Printing == plain_character \/ character \/ string \/ number \/ write_buffer \/ end_message

PrintReturned ==
    \/ pc = "done" /\ UNCHANGED printVars
    \/ caller = "other" /\ Returned /\ UNCHANGED printing

PrintNext == Printing \/ (Running /\ UNCHANGED printing) \/ PrintReturned

PrintSpec == PrintInit /\ [][PrintNext]_printVars

-----------------------------------------------------------------------------
(* Properties *)

\* What a specifier stands for.
Shape(ch, a) ==
    CASE ch = 99  -> <<a>>
      [] ch = 115 -> a
      [] ch = 100 -> Numeral(a, 10)
      [] ch = 120 -> Numeral(a, 16)

\* A message with its arguments put in, one after the other: from position c[1]
\* of m on, when c[2] arguments are used.
Expanded(m, args) ==
    LET exp[c \in Nat \X Nat] ==
            IF c[1] > Len(m) THEN << >>
            ELSE IF m[c[1]] # Percent THEN <<m[c[1]]>> \o exp[<<c[1] + 1, c[2]>>]
            ELSE IF m[c[1] + 1] = Percent THEN <<Percent>> \o exp[<<c[1] + 2, c[2]>>]
            ELSE Shape(m[c[1] + 1], args[c[2] + 1]) \o exp[<<c[1] + 2, c[2] + 1>>]
    IN  exp

Expansion(m, args) == Expanded(m, args)[<<1, 0>>]

\* What _cprint writes is the message with its arguments in their order, whatever
\* an earlier number left in the shared buffer, and although the result of itoa
\* is ignored: the buffer suffices for every number in the bases 10 and 16.
OutputIsExpansion ==
    pc = "done" =>
        out = Expansion(format, given) \o (IF caller = "_cprintln" THEN <<10>> ELSE << >>)
=============================================================================
