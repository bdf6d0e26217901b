------------------------------ MODULE MCCprint -------------------------------
(* 8-bit integers instead of 32-bit ones: every argument, base and buffer size *)
(* is tried.  The buffer of _cprint is as tight as it may be: the longest      *)
(* number, -0x80, takes 6 bytes (12 of the code's 32 with 32-bit integers).    *)
EXTENDS Cprint

\* Numbers of one to three digits, the largest and the smallest, -1.
MCNumbers == {0, 9, 16, 100, 127, 128, 255}

\* Percent, the specifiers and a letter.
MCMessages == {m \in UNION {[1 .. n -> {37, 99, 115, 100, 120, 107}] : n \in 0 .. 4} : WellFormed(m)}
MCStrings  == {<<107>>, <<37, 100>>}
MCLetters  == {107, 10}
=============================================================================
